---- MODULE Spec2Model ----
(***************************************************************************)
(* Model of the presentation generator: the outline parser and the mock    *)
(* outline of llm_utils.py; ensure_conclusion_slide, main and              *)
(* determine_slide_layout of ppt_generator.py and ppt.py;                  *)
(* create_presentation of ppt_generator.py and of ppt.py; the two-column    *)
(* and image slide functions; the request handlers of app_flask.py.        *)
(*                                                                         *)
(* A Python str is modelled as a sequence of one-character strings, so     *)
(* that the regular expressions of the parser are computed character by    *)
(* character.  A dict is a sequence of [key, value] records with distinct  *)
(* keys, in insertion order.                                               *)
(***************************************************************************)
EXTENDS Integers, Sequences, FiniteSets, TLC

VARIABLES
    \* ---- parse_llm_output_to_outline (llm_utils.py) ----
    llm_output,     \* the raw text handed to the parser
    lines,          \* llm_output.splitlines()
    ppc,            \* position of the parser: "idle","title","slides","final","done"
    idx,            \* index of the next line of the second loop (1-based)
    outline,        \* the dict being built
    current_slide,  \* title of the open section or None
    slide_content,  \* buffered content lines of the open section
    main_title,     \* presentation title or None
    bullets_out,    \* result of a direct call of process_bullet_points
    \* ---- ensure_conclusion_slide (ppt_generator.py, ppt.py) ----
    ec_arg,         \* the outline passed in
    ec_ret,         \* the outline returned
    ec_pc,          \* "off", "call", "done"
    \* ---- determine_slide_layout (ppt_generator.py, ppt.py) ----
    dl_args,        \* the arguments of the call and the module called
    dl_ret,         \* the layout returned
    dl_random,      \* TRUE when random.choice produced the result
    dl_pc,          \* "off", "call", "done"
    \* ---- create_presentation (ppt_generator.py) ----
    cp_outline,     \* the outline passed in
    cp_detail,      \* detail_level
    cp_pc,          \* position of the call
    cp_i,           \* slide_index of the section being rendered (1-based)
    cp_q,           \* index of the image query being tried (1-based)
    cp_layout,      \* layout chosen for the section being rendered
    cp_title_image, \* TRUE when a title image was downloaded
    slides,         \* prs.slides: the slides added so far
    cp_error,       \* the exception that ended the call, "" when none
    cp_files,       \* the image files the call has written that are on disk
    \* ---- main (ppt_generator.py, ppt.py) ----
    m_module,       \* the module whose main runs
    m_args,         \* args: topic, detail, theme
    m_key,          \* TRUE when GROQ_API_KEY is set
    m_fs,           \* the themes folder: directories and files that exist
    m_pc,           \* position of main
    m_theme_path,   \* theme_path
    m_outline,      \* outline
    m_title,        \* presentation_title
    m_mock,         \* TRUE when generate_outline used the mock outline
    m_prs,          \* the presentation create_presentation started from
    m_error,        \* the exception that ended main, "" when none
    \* ---- the web application (app_flask.py) ----
    fl_session,     \* the session of each browser
    fl_req,         \* the POST /step3 request in flight of each session
    fl_files,       \* the files on disk: path -> content
    fl_count,       \* the temporary files created so far
    fl_done,        \* the last call of create_presentation that returned
    fl_log,         \* the file accesses made: path, session, read or write
    fl_resp,        \* the response to the last request: session, page, file sent
    \* ---- the slide functions (ppt_generator.py, ppt.py) ----
    sl_call,        \* the function called, its module, points and image file
    sl_frames,      \* the paragraphs of the text frames the call has filled
    sl_shape,       \* the picture or placeholder put into the image container
    sl_pc,          \* "off", "call", "returned", "raised"
    \* ---- create_presentation (ppt.py) ----
    pp_call,        \* the arguments: outline, detail_level, theme_path
    pp_file,        \* the file at theme_path
    pp_pc,          \* position of the call
    pp_i,           \* slide_index of the next section (1-based)
    pp_slides,      \* prs.slides
    pp_tmp,         \* the files in the temporary directory
    pp_saved,       \* the slides of the file written by prs.save
    pp_error        \* the exception that ended the call, "" when none

parserVars == <<llm_output, lines, ppc, idx, outline, current_slide,
                slide_content, main_title, bullets_out>>

conclusionVars == <<ec_arg, ec_ret, ec_pc>>

layoutVars == <<dl_args, dl_ret, dl_random, dl_pc>>

presentationVars == <<cp_outline, cp_detail, cp_pc, cp_i, cp_q, cp_layout,
                      cp_title_image, slides, cp_error, cp_files>>

mainVars == <<m_module, m_args, m_key, m_fs, m_pc, m_theme_path, m_outline,
              m_title, m_mock, m_prs, m_error>>

flaskVars == <<fl_session, fl_req, fl_files, fl_count, fl_done, fl_log, fl_resp>>

slideVars == <<sl_call, sl_frames, sl_shape, sl_pc>>

pptVars == <<pp_call, pp_file, pp_pc, pp_i, pp_slides, pp_tmp, pp_saved, pp_error>>

vars == <<parserVars, conclusionVars, layoutVars, presentationVars, mainVars,
          flaskVars, slideVars, pptVars>>

-----------------------------------------------------------------------------
(* Characters and strings *)

NL == "\n"
TAB == "\t"
BULLET == "BULLET"            \* the character U+2022
WS == {" ", TAB}
Digits == {"0", "1", "2", "3", "4", "5", "6", "7", "8", "9"}

\* Python None; a value no str of the model is equal to
None == <<"None">>

UpperCase == <<"A","B","C","D","E","F","G","H","I","J","K","L","M",
               "N","O","P","Q","R","S","T","U","V","W","X","Y","Z">>
LowerCase == <<"a","b","c","d","e","f","g","h","i","j","k","l","m",
               "n","o","p","q","r","s","t","u","v","w","x","y","z">>

LowerChar(c) ==
    IF \E k \in 1..26 : UpperCase[k] = c
    THEN LowerCase[CHOOSE k \in 1..26 : UpperCase[k] = c]
    ELSE c

\* str.lower()
Lower(s) == [k \in 1..Len(s) |-> LowerChar(s[k])]

\* s[a:] with a 1-based
From(s, a) == SubSeq(s, a, Len(s))

\* s.startswith(p)
StartsWith(s, p) == Len(s) >= Len(p) /\ SubSeq(s, 1, Len(p)) = p

\* s.endswith(p)
EndsWith(s, p) == Len(s) >= Len(p) /\ SubSeq(s, Len(s) - Len(p) + 1, Len(s)) = p

\* sub in s
Contains(s, sub) ==
    \E k \in 1..(Len(s) - Len(sub) + 1) : SubSeq(s, k, k + Len(sub) - 1) = sub

\* number of leading whitespace characters
LeadWS(s) ==
    IF \A k \in 1..Len(s) : s[k] \in WS THEN Len(s)
    ELSE (CHOOSE k \in 1..Len(s) :
             s[k] \notin WS /\ \A j \in 1..(k-1) : s[j] \in WS) - 1

\* number of trailing whitespace characters
TrailWS(s) ==
    IF \A k \in 1..Len(s) : s[k] \in WS THEN Len(s)
    ELSE Len(s) - (CHOOSE k \in 1..Len(s) :
             s[k] \notin WS /\ \A j \in (k+1)..Len(s) : s[j] \in WS)

\* str.lstrip()
LStrip(s) == From(s, LeadWS(s) + 1)

\* str.strip()
Strip(s) ==
    IF LeadWS(s) = Len(s) THEN <<>>
    ELSE SubSeq(s, LeadWS(s) + 1, Len(s) - TrailWS(s))

\* first index k >= a with s[k..] starting with p, or 0
FindFrom(s, p, a) ==
    LET hits == {k \in a..(Len(s) - Len(p) + 1) : SubSeq(s, k, k + Len(p) - 1) = p}
    IN IF hits = {} THEN 0 ELSE CHOOSE k \in hits : \A j \in hits : k <= j

RECURSIVE SplitLines(_)
\* str.splitlines() for the line boundary "\n"
SplitLines(s) ==
    IF s = <<>> THEN <<>>
    ELSE LET k == FindFrom(s, <<NL>>, 1)
         IN IF k = 0 THEN <<s>>
            ELSE <<SubSeq(s, 1, k - 1)>> \o SplitLines(From(s, k + 1))

RECURSIVE JoinLines(_)
\* "\n".join(ls)
JoinLines(ls) ==
    IF ls = <<>> THEN <<>>
    ELSE IF Len(ls) = 1 THEN ls[1]
    ELSE ls[1] \o <<NL>> \o JoinLines(Tail(ls))

-----------------------------------------------------------------------------
(* The regular expressions of llm_utils.py *)

\* first index k >= a with s[k] \notin set, or Len(s) + 1
SkipWhile(s, a, set) ==
    LET stops == {k \in a..Len(s) : s[k] \notin set}
    IN IF stops = {} THEN Len(s) + 1
       ELSE CHOOSE k \in stops : \A j \in stops : k <= j

RECURSIVE SubBold(_)
\* re.sub(r'\*\*(.*?)\*\*', r'\1', text)
SubBold(s) ==
    LET p == FindFrom(s, <<"*", "*">>, 1)
        q == IF p = 0 THEN 0 ELSE FindFrom(s, <<"*", "*">>, p + 2)
    IN IF q = 0 THEN s
       ELSE SubSeq(s, 1, p - 1) \o SubSeq(s, p + 2, q - 1) \o SubBold(From(s, q + 2))

RECURSIVE SubItalic(_)
\* re.sub(r'\*(.*?)\*', r'\1', text)
SubItalic(s) ==
    LET p == FindFrom(s, <<"*">>, 1)
        q == IF p = 0 THEN 0 ELSE FindFrom(s, <<"*">>, p + 1)
    IN IF q = 0 THEN s
       ELSE SubSeq(s, 1, p - 1) \o SubSeq(s, p + 1, q - 1) \o SubItalic(From(s, q + 1))

RECURSIVE SubHeaders(_)
\* re.sub(r'#+\s*', '', text)
SubHeaders(s) ==
    LET p == FindFrom(s, <<"#">>, 1)
    IN IF p = 0 THEN s
       ELSE SubSeq(s, 1, p - 1)
            \o SubHeaders(From(s, SkipWhile(s, SkipWhile(s, p, {"#"}), WS)))

\* index of the last character of a match of \[([^\]]+)\]\([^)]+\) that
\* starts at p, or 0 when there is none
LinkEnd(s, p) ==
    IF p > Len(s) \/ p < 1 THEN 0
    ELSE IF s[p] # "[" THEN 0
    ELSE LET q == FindFrom(s, <<"]">>, p + 1)
         IN IF q < p + 2 THEN 0
            ELSE IF q + 1 > Len(s) THEN 0
            ELSE IF s[q + 1] # "(" THEN 0
            ELSE LET r == FindFrom(s, <<")">>, q + 2)
                 IN IF r < q + 3 THEN 0 ELSE r

RECURSIVE SubLinks(_)
\* re.sub(r'\[([^\]]+)\]\([^)]+\)', r'\1', text)
SubLinks(s) ==
    LET starts == {p \in 1..Len(s) : LinkEnd(s, p) # 0}
    IN IF starts = {} THEN s
       ELSE LET p == CHOOSE k \in starts : \A j \in starts : k <= j
                q == FindFrom(s, <<"]">>, p + 1)
            IN SubSeq(s, 1, p - 1) \o SubSeq(s, p + 1, q - 1)
               \o SubLinks(From(s, LinkEnd(s, p) + 1))

RECURSIVE SubImages(_)
\* re.sub(r'!\[([^\]]+)\]\([^)]+\)', '', text)
SubImages(s) ==
    LET starts == {p \in 1..Len(s) : s[p] = "!" /\ LinkEnd(s, p + 1) # 0}
    IN IF starts = {} THEN s
       ELSE LET p == CHOOSE k \in starts : \A j \in starts : k <= j
            IN SubSeq(s, 1, p - 1) \o SubImages(From(s, LinkEnd(s, p + 1) + 1))

RECURSIVE SubSpaces(_)
\* re.sub(r'\s+', ' ', text)
SubSpaces(s) ==
    LET hits == {k \in 1..Len(s) : s[k] \in WS}
    IN IF hits = {} THEN s
       ELSE LET p == CHOOSE k \in hits : \A j \in hits : k <= j
            IN SubSeq(s, 1, p - 1) \o <<" ">>
               \o SubSpaces(From(s, SkipWhile(s, p, WS)))

\* SubBulletMarker for the character class [\-*], without U+2022
SubBulletMarker_NoDot(s) ==
    IF Len(s) >= 2 /\ s[1] \in {"-", "*"} /\ s[2] \in WS
    THEN From(s, SkipWhile(s, 2, WS))
    ELSE s

\* re.sub(r'^[•\-*]\s+', '', cleaned)
SubBulletMarker(s) ==
    IF Len(s) >= 2 /\ s[1] \in {BULLET, "-", "*"} /\ s[2] \in WS
    THEN From(s, SkipWhile(s, 2, WS))
    ELSE s

\* re.sub(r'^\d+[\.\)]\s+', '', cleaned)
SubNumberMarker(s) ==
    LET d == SkipWhile(s, 1, Digits)
    IN IF d >= 2 /\ d + 1 <= Len(s) /\ s[d] \in {".", ")"} /\ s[d + 1] \in WS
       THEN From(s, SkipWhile(s, d + 1, WS))
       ELSE s

\* re.match(r'^\d+\.', line)
MatchNumbered(s) ==
    LET d == SkipWhile(s, 1, Digits)
    IN d >= 2 /\ d <= Len(s) /\ s[d] = "."

\* re.match(r'^[•\-*]', line)
MatchBulleted(s) == Len(s) >= 1 /\ s[1] \in {BULLET, "-", "*"}

\* re.match(slide_pattern, line) for
\* slide_pattern = r'^\s*(?:\*\*([^*]+)\*\*|#\s+([^#]+))$';
\* the value is title_match.group(1) or title_match.group(2), None when the
\* line does not match
SlidePatternGroup(s) ==
    LET t == From(s, SkipWhile(s, 1, WS))
    IN IF /\ Len(t) >= 5
          /\ SubSeq(t, 1, 2) = <<"*", "*">>
          /\ SubSeq(t, Len(t) - 1, Len(t)) = <<"*", "*">>
          /\ \A k \in 3..(Len(t) - 2) : t[k] # "*"
       THEN SubSeq(t, 3, Len(t) - 2)
       ELSE IF /\ Len(t) >= 3
               /\ t[1] = "#"
               /\ t[2] \in WS
               /\ \A k \in 3..Len(t) : t[k] # "#"
       THEN LET w == SkipWhile(t, 2, WS)
            IN From(t, IF w > Len(t) THEN Len(t) ELSE w)
       ELSE None

-----------------------------------------------------------------------------
(* llm_utils.py: clean_markdown, process_bullet_points *)

clean_markdown(text) ==
    IF text = <<>> THEN text
    ELSE Strip(SubSpaces(SubImages(SubLinks(SubHeaders(SubItalic(SubBold(text)))))))

MaxLevel == 3

\* ClampLevel without the upper limit
ClampLevel_NoMax(level) == IF level < 0 THEN 0 ELSE level

\* max(0, min(level, 3))
ClampLevel(level) ==
    IF level > MaxLevel THEN MaxLevel ELSE IF level < 0 THEN 0 ELSE level

\* one iteration of the loop of process_bullet_points: the bullets that the
\* content line adds (none or one)
BulletOf(line) ==
    IF Strip(line) = <<>> THEN <<>>
    ELSE LET leading_spaces == Len(line) - Len(LStrip(line))
             level == leading_spaces \div 2
             cleaned == SubNumberMarker(SubBulletMarker(clean_markdown(Strip(line))))
         IN IF cleaned # <<>>
            THEN << [text |-> cleaned, level |-> ClampLevel(level)] >>
            ELSE <<>>

RECURSIVE process_bullet_points(_)
process_bullet_points(content_lines) ==
    IF content_lines = <<>> THEN <<>>
    ELSE BulletOf(Head(content_lines)) \o process_bullet_points(Tail(content_lines))

-----------------------------------------------------------------------------
(* dict operations: a dict is a sequence of [key, value] records *)

Keys(d) == [k \in 1..Len(d) |-> d[k].key]

HasKey(d, key) == \E k \in 1..Len(d) : d[k].key = key

\* d[key]
Get(d, key) == d[CHOOSE k \in 1..Len(d) : d[k].key = key].value

\* d[key] = value: an existing key keeps its position
DictSet(d, key, value) ==
    IF HasKey(d, key)
    THEN [k \in 1..Len(d) |-> IF d[k].key = key THEN [key |-> key, value |-> value]
                                                ELSE d[k]]
    ELSE Append(d, [key |-> key, value |-> value])

\* the dict left by d.pop(key)
DictDel(d, key) == SelectSeq(d, LAMBDA e : e.key # key)

\* bool(x) of a str or None
Truthy(x) == x # None /\ x # <<>>

-----------------------------------------------------------------------------
(* llm_utils.py: parse_llm_output_to_outline *)

sIntroductionLower == <<"i","n","t","r","o","d","u","c","t","i","o","n">>
sIntroduction == <<"I","n","t","r","o","d","u","c","t","i","o","n">>
sPresentation == <<"P","r","e","s","e","n","t","a","t","i","o","n">>

intro_phrases == <<
    <<"h","e","r","e"," ","i","s">>,
    <<"t","h","i","s"," ","i","s">>,
    <<"b","e","l","o","w"," ","i","s">>,
    <<"f","o","l","l","o","w","i","n","g"," ","i","s">>,
    <<"p","r","e","s","e","n","t","a","t","i","o","n"," ","o","u","t","l","i","n","e">>,
    <<"o","u","t","l","i","n","e"," ","f","o","r">>,
    <<"g","e","n","e","r","a","t","e","d"," ","o","u","t","l","i","n","e">>,
    <<"i"," ","h","a","v","e">>,
    <<"i","'","v","e"," ","c","r","e","a","t","e","d">>,
    <<"t","h","e"," ","f","o","l","l","o","w","i","n","g">> >>

TitleMinLen == 3
TitleMaxLen == 80

\* the test of lines 255-263 on a stripped, non-empty line: the line is taken
\* as the presentation title
IsTitleLine(line) ==
    /\ line # <<>>
    /\ ~ \E k \in 1..Len(intro_phrases) : Contains(Lower(line), intro_phrases[k])
    /\ Len(line) > TitleMinLen
    /\ Len(line) < TitleMaxLen
    /\ ~ \E p \in {<<"#">>, <<"*">>, <<"-">>, <<BULLET>>,
                   <<"1", ".">>, <<"2", ".">>, <<"3", ".">>} : StartsWith(line, p)
    /\ ~ \E p \in {<<":">>, <<"-">>} : EndsWith(line, p)
    /\ ~ MatchNumbered(line)
    /\ ~ MatchBulleted(line)

\* the first loop (lines 247-267): main_title after it
find_main_title(ls) ==
    LET cand == {k \in 1..Len(ls) : IsTitleLine(Strip(ls[k]))}
    IN IF cand = {} THEN None
       ELSE clean_markdown(Strip(ls[CHOOSE k \in cand : \A j \in cand : k <= j]))

\* SaveSlide that appends the new bullets to those a repeated title already has
SaveSlide_Merge(d, cur, content) ==
    IF Truthy(cur) /\ content # <<>>
    THEN DictSet(d, cur, (IF HasKey(d, cur) THEN Get(d, cur) ELSE <<>>)
                             \o process_bullet_points(content))
    ELSE d

\* lines 284-285 and 297-298: save the open section when it has content
SaveSlide(d, cur, content) ==
    IF Truthy(cur) /\ content # <<>>
    THEN DictSet(d, cur, process_bullet_points(content))
    ELSE d

\* DefaultTitle without the final default "Presentation"
DefaultTitle_NoDefault(title, d) ==
    IF Truthy(title) THEN title
    ELSE IF d # <<>>
         THEN LET non == {k \in 1..Len(d) :
                             ~ Contains(Lower(d[k].key), sIntroductionLower)}
              IN IF non # {}
                 THEN d[CHOOSE k \in non : \A j \in non : k <= j].key
                 ELSE d[1].key
         ELSE title

\* lines 301-312: the title when none was found
DefaultTitle(title, d) ==
    IF Truthy(title) THEN title
    ELSE IF d # <<>>
         THEN LET non == {k \in 1..Len(d) :
                             ~ Contains(Lower(d[k].key), sIntroductionLower)}
              IN IF non # {}
                 THEN d[CHOOSE k \in non : \A j \in non : k <= j].key
                 ELSE d[1].key
         ELSE sPresentation

\* lines 315-320: rename the first introduction-like section
RenameIntroduction(d) ==
    LET like == {k \in 1..Len(d) : Contains(Lower(d[k].key), sIntroductionLower)}
    IN IF ~ HasKey(d, sIntroduction) /\ like # {}
       THEN LET key == d[CHOOSE k \in like : \A j \in like : k <= j].key
            IN DictSet(DictDel(d, key), sIntroduction, Get(d, key))
       ELSE d

\* ReorderIntroduction that leaves the renamed section where the rename put it
ReorderIntroduction_Skip(d) == d

\* lines 323-328: "Introduction" first, the others in their order
ReorderIntroduction(d) ==
    IF HasKey(d, sIntroduction)
    THEN << [key |-> sIntroduction, value |-> Get(d, sIntroduction)] >>
         \o SelectSeq(d, LAMBDA e : e.key # sIntroduction)
    ELSE d

\* one iteration of the second loop (lines 270-294) on the loop state
\* st = [outline, current_slide, slide_content]
SlideLoopStep(st, raw_line) ==
    LET line == Strip(raw_line)
        g == SlidePatternGroup(line)
    IN IF line = <<>> THEN st
       ELSE IF g # None
       THEN [outline |-> SaveSlide(st.outline, st.current_slide, st.slide_content),
             current_slide |-> Strip(g),
             slide_content |-> <<>>]
       ELSE IF st.current_slide # None
       THEN [st EXCEPT !.slide_content = Append(st.slide_content, line)]
       ELSE st

-----------------------------------------------------------------------------
(* Inputs of the parser *)

MaxLines == 3       \* lines of a free-form input
MaxBullets == 2     \* bullet lines under the header of a bullet-list input
MaxIndent == 9      \* widest indentation, in spaces
MaxSections == 3    \* sections of a sectioned input

Spaces(n) == [k \in 1..n |-> " "]

Bold(t) == <<"*", "*">> \o t \o <<"*", "*">>
Hash(t) == <<"#", " ">> \o t

tGoals == <<"G","o","a","l","s">>
tPlan == <<"P","l","a","n">>
tAnIntro == <<"A","n"," ","i","n","t","r","o","d","u","c","t","i","o","n">>
tIntro2 == <<"I","N","T","R","O","D","U","C","T","I","O","N"," ","2">>
tSolar == <<"S","o","l","a","r"," ","p","o","w","e","r">>
tHereIs == <<"H","e","r","e"," ","i","s"," ","i","t">>

\* section titles of the headers
HeaderTitles == {tGoals, tPlan, tAnIntro, tIntro2, sIntroduction}

\* bullet texts: plain words, emphasis, multiplication signs, a header
\* mark, a numbered start, doubled blanks
BulletTexts == {
    <<"a">>,
    <<"b", " ", "c">>,
    <<"*", "*", "b", "*", "*", " ", "c">>,
    <<"2", " ", "*", " ", "3", " ", "*", " ", "4">>,
    <<"x", " ", "#", "1">>,
    <<"2", ".", " ", "d">>,
    <<"e", " ", " ", "f">> }

Markers == { <<"-", " ">>, <<"*", " ">>, <<BULLET, " ">>, <<"1", ".", " ">> }

\* lines of free-form inputs
CoreLines == {
    <<>>,
    Bold(tGoals), Hash(tPlan), Bold(tAnIntro), Bold(sIntroduction), Bold(<<" ">>),
    tSolar, tHereIs,
    <<"-", " ", "a">>,
    <<" ", " ", BULLET, " ", "b", " ", "c">>,
    <<"[", " ", "]", "(", "u", ")">> }

RECURSIVE SeqsUpTo(_, _)
\* the sequences over S of length at most n
SeqsUpTo(S, n) ==
    IF n = 0 THEN {<<>>}
    ELSE LET shorter == SeqsUpTo(S, n - 1)
         IN shorter \cup {Append(q, x) : q \in {r \in shorter : Len(r) = n - 1}, x \in S}

\* free-form texts
FreeInputs == {JoinLines(ls) : ls \in SeqsUpTo(CoreLines, MaxLines)}

\* one header **T** followed by 1..MaxBullets bullet lines "marker text"
BulletInputs ==
    {JoinLines(<<Bold(t)>> \o bl) :
        t \in {tGoals, tAnIntro},
        bl \in {b \in SeqsUpTo({m \o x : m \in Markers, x \in BulletTexts}, MaxBullets) :
                   b # <<>>}}

\* one header followed by one bullet line indented by 0..MaxIndent spaces
\* or by tabs, and a second header
IndentInputs ==
    {JoinLines(<<Bold(tGoals), ind \o <<"-", " ", "a">>, Hash(tPlan), <<"b">> >>) :
        ind \in {Spaces(n) : n \in 0..MaxIndent} \cup {<<TAB>>, <<TAB, TAB>>}}

\* single lines that exercise the title test
TitleInputs ==
    { [k \in 1..n |-> "x"] : n \in {TitleMinLen, TitleMinLen + 1,
                                    TitleMaxLen - 1, TitleMaxLen} }
    \cup { <<"N","o","t","e",":">>, <<"1","0",".","a">>, <<"*","T","o","p","*">>,
           <<"!","[","[","a","]","(","b",")","]","(","c",")">>,
           Bold(tGoals) \o <<NL>>, <<NL>> }

\* headers of sectioned inputs
HeaderLines == {Bold(t) : t \in HeaderTitles} \cup {Hash(tPlan)}

RECURSIVE Sectioned(_, _)
\* header k is followed by the bullet line "- <k-th letter>"
Sectioned(hs, k) ==
    IF hs = <<>> THEN <<>>
    ELSE <<Head(hs), <<"-", " ", LowerCase[k]>> >> \o Sectioned(Tail(hs), k + 1)

\* 1..MaxSections sections of one bullet each
SectionInputs ==
    {JoinLines(Sectioned(hs, 1)) : hs \in SeqsUpTo(HeaderLines, MaxSections) \ {<<>>}}

Inputs == FreeInputs \cup BulletInputs \cup IndentInputs \cup TitleInputs
          \cup SectionInputs

-----------------------------------------------------------------------------
(* The parser as a state machine *)

ParserIdle ==
    /\ lines = <<>>
    /\ idx = 0
    /\ outline = <<>>
    /\ current_slide = None
    /\ slide_content = <<>>
    /\ main_title = None
    /\ bullets_out = <<>>

InitParser ==
    /\ llm_output \in Inputs
    /\ ppc = "start"
    /\ ParserIdle

\* lines 230-267: split the text and look for the presentation title
ParseStart ==
    /\ ppc = "start"
    /\ lines' = SplitLines(llm_output)
    /\ main_title' = find_main_title(SplitLines(llm_output))
    /\ idx' = 1
    /\ ppc' = "slides"
    /\ UNCHANGED <<llm_output, outline, current_slide, slide_content, bullets_out>>
    /\ UNCHANGED <<conclusionVars, layoutVars, presentationVars, mainVars, flaskVars, slideVars, pptVars>>

\* lines 270-294: one line of the second loop
ParseLine ==
    /\ ppc = "slides"
    /\ idx <= Len(lines)
    /\ LET st == SlideLoopStep([outline |-> outline,
                                current_slide |-> current_slide,
                                slide_content |-> slide_content], lines[idx])
       IN /\ outline' = st.outline
          /\ current_slide' = st.current_slide
          /\ slide_content' = st.slide_content
    /\ idx' = idx + 1
    /\ UNCHANGED <<llm_output, lines, ppc, main_title, bullets_out>>
    /\ UNCHANGED <<conclusionVars, layoutVars, presentationVars, mainVars, flaskVars, slideVars, pptVars>>

\* lines 296-330: the last section, the default title, the Introduction
\* section; the function returns (main_title, outline)
ParseFinish ==
    /\ ppc = "slides"
    /\ idx > Len(lines)
    /\ LET saved == SaveSlide(outline, current_slide, slide_content)
       IN /\ main_title' = DefaultTitle(main_title, saved)
          /\ outline' = ReorderIntroduction(RenameIntroduction(saved))
    /\ ppc' = "done"
    /\ UNCHANGED <<llm_output, lines, idx, current_slide, slide_content, bullets_out>>
    /\ UNCHANGED <<conclusionVars, layoutVars, presentationVars, mainVars, flaskVars, slideVars, pptVars>>

\* a direct call process_bullet_points(content_lines) on the lines of the text
ProcessBullets ==
    /\ ppc = "start"
    /\ bullets_out' = process_bullet_points(SplitLines(llm_output))
    /\ ppc' = "bullets"
    /\ UNCHANGED <<llm_output, lines, idx, outline, current_slide, slide_content,
                   main_title>>
    /\ UNCHANGED <<conclusionVars, layoutVars, presentationVars, mainVars, flaskVars, slideVars, pptVars>>

ParserOff ==
    /\ llm_output = <<>>
    /\ ppc = "off"
    /\ ParserIdle

NextParser ==
    \/ ParseStart
    \/ ParseLine
    \/ ParseFinish
    \/ ProcessBullets

-----------------------------------------------------------------------------
(* llm_utils.py: get_mock_outline, initialize_groq_client *)

\* lines 339-350: sections of the simple mock outline
sections_simple == <<
    <<"I","n","t","r","o","d","u","c","t","i","o","n">>,
    <<"C","o","r","e"," ","C","o","n","c","e","p","t","s">>,
    <<"K","e","y"," ","F","e","a","t","u","r","e","s">>,
    <<"A","p","p","l","i","c","a","t","i","o","n","s">>,
    <<"B","e","n","e","f","i","t","s">>,
    <<"I","m","p","l","e","m","e","n","t","a","t","i","o","n">>,
    <<"C","a","s","e"," ","S","t","u","d","i","e","s">>,
    <<"B","e","s","t"," ","P","r","a","c","t","i","c","e","s">>,
    <<"F","u","t","u","r","e"," ","T","r","e","n","d","s">>,
    <<"C","o","n","c","l","u","s","i","o","n">> >>

\* lines 368-383: sections of the detailed mock outline
sections_detailed == <<
    <<"I","n","t","r","o","d","u","c","t","i","o","n">>,
    <<"H","i","s","t","o","r","i","c","a","l"," ","B","a","c","k","g","r",
      "o","u","n","d">>,
    <<"F","u","n","d","a","m","e","n","t","a","l"," ","P","r","i","n","c",
      "i","p","l","e","s">>,
    <<"T","e","c","h","n","i","c","a","l"," ","A","r","c","h","i","t","e",
      "c","t","u","r","e">>,
    <<"K","e","y"," ","C","o","m","p","o","n","e","n","t","s">>,
    <<"I","m","p","l","e","m","e","n","t","a","t","i","o","n"," ","M","e",
      "t","h","o","d","s">>,
    <<"I","n","d","u","s","t","r","y"," ","A","p","p","l","i","c","a","t",
      "i","o","n","s">>,
    <<"S","u","c","c","e","s","s"," ","S","t","o","r","i","e","s">>,
    <<"B","e","n","e","f","i","t","s"," ","a","n","d"," ","A","d","v","a",
      "n","t","a","g","e","s">>,
    <<"C","h","a","l","l","e","n","g","e","s"," ","a","n","d"," ","L","i",
      "m","i","t","a","t","i","o","n","s">>,
    <<"F","u","t","u","r","e"," ","D","e","v","e","l","o","p","m","e","n",
      "t","s">>,
    <<"B","e","s","t"," ","P","r","a","c","t","i","c","e","s">>,
    <<"C","a","s","e"," ","S","t","u","d","y"," ","A","n","a","l","y","s",
      "i","s">>,
    <<"C","o","n","c","l","u","s","i","o","n"," ","a","n","d"," ","R","e",
      "c","o","m","m","e","n","d","a","t","i","o","n","s">> >>

\* the fixed pieces of the bullet lines of get_mock_outline

mBriefOverview ==
    <<"-"," ","B","r","i","e","f"," ","o","v","e","r","v","i","e","w"," ",
      "o","f"," ">>

mSignificance ==
    <<" ","a","n","d"," ","i","t","s"," ","s","i","g","n","i","f","i","c",
      "a","n","c","e">>

mObjectives ==
    <<"-"," ","M","a","i","n"," ","o","b","j","e","c","t","i","v","e","s",
      " ","a","n","d"," ","g","o","a","l","s">>

mAudience ==
    <<"-"," ","T","a","r","g","e","t"," ","a","u","d","i","e","n","c","e",
      " ","a","n","d"," ","u","s","e"," ","c","a","s","e","s">>

mKeyPoint ==
    <<"-"," ","K","e","y"," ","p","o","i","n","t"," ">>

mAbout ==
    <<" ","a","b","o","u","t"," ">>

mSummary ==
    <<"-"," ","S","u","m","m","a","r","y"," ","o","f"," ","m","a","i","n",
      " ","p","o","i","n","t","s">>

mTakeaways ==
    <<"-"," ","K","e","y"," ","t","a","k","e","a","w","a","y","s">>

mNextSteps ==
    <<"-"," ","N","e","x","t"," ","s","t","e","p","s"," ","a","n","d"," ",
      "r","e","c","o","m","m","e","n","d","a","t","i","o","n","s">>

mComprehensiveAnalysis ==
    <<"C","o","m","p","r","e","h","e","n","s","i","v","e"," ","A","n","a",
      "l","y","s","i","s"," ","o","f"," ">>

mOverviewOf ==
    <<"-"," ","C","o","m","p","r","e","h","e","n","s","i","v","e"," ","o",
      "v","e","r","v","i","e","w"," ","o","f"," ">>

mModernContext ==
    <<" ","a","n","d"," ","i","t","s"," ","s","i","g","n","i","f","i","c",
      "a","n","c","e"," ","i","n"," ","m","o","d","e","r","n"," ","c","o",
      "n","t","e","x","t">>

mCoreConcepts ==
    <<"-"," ","D","e","t","a","i","l","e","d"," ","e","x","p","l","a","n",
      "a","t","i","o","n"," ","o","f"," ","c","o","r","e"," ","c","o","n",
      "c","e","p","t","s"," ","a","n","d"," ","t","h","e","i","r"," ","i",
      "n","t","e","r","r","e","l","a","t","i","o","n","s","h","i","p","s">>

mEvolutionOf ==
    <<"-"," ","D","i","s","c","u","s","s","i","o","n"," ","o","f"," ","t",
      "h","e"," ","e","v","o","l","u","t","i","o","n"," ","a","n","d"," ",
      "c","u","r","r","e","n","t"," ","s","t","a","t","e"," ","o","f"," ">>

mFirstAspect ==
    <<"-"," ","I","n","-","d","e","p","t","h"," ","a","n","a","l","y","s",
      "i","s"," ","o","f"," ","f","i","r","s","t"," ","a","s","p","e","c",
      "t"," ","o","f"," ">>

mSecondAspect ==
    <<"-"," ","D","e","t","a","i","l","e","d"," ","e","x","a","m","i","n",
      "a","t","i","o","n"," ","o","f"," ","s","e","c","o","n","d"," ","a",
      "s","p","e","c","t"," ","w","i","t","h"," ","s","p","e","c","i","f",
      "i","c"," ","e","x","a","m","p","l","e","s">>

mThirdAspect ==
    <<"-"," ","C","o","m","p","r","e","h","e","n","s","i","v","e"," ","r",
      "e","v","i","e","w"," ","o","f"," ","t","h","i","r","d"," ","a","s",
      "p","e","c","t"," ","i","n","c","l","u","d","i","n","g"," ","p","r",
      "a","c","t","i","c","a","l"," ","i","m","p","l","i","c","a","t","i",
      "o","n","s">>

mDetailedSummary ==
    <<"-"," ","D","e","t","a","i","l","e","d"," ","s","u","m","m","a","r",
      "y"," ","o","f"," ","a","l","l"," ","k","e","y"," ","i","n","s","i",
      "g","h","t","s"," ","a","n","d"," ","f","i","n","d","i","n","g","s">>

mRecommendations ==
    <<"-"," ","S","p","e","c","i","f","i","c"," ","r","e","c","o","m","m",
      "e","n","d","a","t","i","o","n","s"," ","f","o","r"," ","i","m","p",
      "l","e","m","e","n","t","a","t","i","o","n"," ","a","n","d"," ","a",
      "d","o","p","t","i","o","n">>

mOutlook ==
    <<"-"," ","F","u","t","u","r","e"," ","o","u","t","l","o","o","k"," ",
      "a","n","d"," ","p","o","t","e","n","t","i","a","l"," ","d","e","v",
      "e","l","o","p","m","e","n","t","s"," ","i","n"," ","t","h","e"," ",
      "f","i","e","l","d">>

\* SimpleSection with two key points
SimpleSection_TwoPoints(section) ==
    << Bold(section),
       mKeyPoint \o <<"1">> \o mAbout \o Lower(section),
       mKeyPoint \o <<"2">> \o mAbout \o Lower(section),
       <<>> >>

\* the lines of one middle section of the simple mock outline (lines 356-358)
SimpleSection(section) ==
    << Bold(section),
       mKeyPoint \o <<"1">> \o mAbout \o Lower(section),
       mKeyPoint \o <<"2">> \o mAbout \o Lower(section),
       mKeyPoint \o <<"3">> \o mAbout \o Lower(section),
       <<>> >>

\* the lines of one middle section of the detailed mock outline (lines 391-395)
DetailedSection(section) ==
    << Bold(section),
       mFirstAspect \o Lower(section),
       mSecondAspect,
       mThirdAspect,
       <<>> >>

RECURSIVE MiddleSections(_, _, _)
\* the loop over sections[1:-1]: sections k..Len(sections)-1
MiddleSections(sections, k, detailed) ==
    IF k >= Len(sections) THEN <<>>
    ELSE (IF detailed THEN DetailedSection(sections[k]) ELSE SimpleSection(sections[k]))
         \o MiddleSections(sections, k + 1, detailed)

\* get_mock_outline(topic, detail_level): the text, which is its lines joined
\* by "\n"; the topic is interpolated as it is
get_mock_outline(topic, detail_level) ==
    IF detail_level = "simple"
    THEN JoinLines(
           << Bold(topic), <<>>,
              Bold(sections_simple[1]),
              mBriefOverview \o topic \o mSignificance, mObjectives, mAudience,
              <<>> >>
           \o MiddleSections(sections_simple, 2, FALSE)
           \o << Bold(sections_simple[Len(sections_simple)]),
                 mSummary, mTakeaways, mNextSteps >>)
    ELSE JoinLines(
           << Bold(mComprehensiveAnalysis \o topic), <<>>,
              Bold(sections_detailed[1]),
              mOverviewOf \o topic \o mModernContext, mCoreConcepts,
              mEvolutionOf \o topic,
              <<>> >>
           \o MiddleSections(sections_detailed, 2, TRUE)
           \o << Bold(sections_detailed[Len(sections_detailed)]),
                 mDetailedSummary, mRecommendations, mOutlook >>)

\* the exception raised by a failed request of get_presentation_outline; a
\* value no text is equal to
LLMError == <<"Exception">>

\* initialize_groq_client(): the client, or ValueError when GROQ_API_KEY is
\* not set
initialize_groq_client(GROQ_API_KEY) == IF GROQ_API_KEY THEN "client" ELSE "ValueError"

-----------------------------------------------------------------------------
(* ensure_conclusion_slide *)

sConclusion == <<"C","o","n","c","l","u","s","i","o","n">>

conclusion_keywords == << <<"c","o","n","c","l","u","s","i","o","n">>, <<"s","u","m","m","a","r","y">>, <<"w","r","a","p","-","u","p">>, <<"f","i","n","a","l">> >>

\* the three fixed bullets of the appended section
ConclusionBullets == <<
    [text |-> <<"S","u","m","m","a","r","y"," ","o","f"," ","k","e","y"," ","p","o","i","n","t","s"," ","a","n","d"," ","t","a","k","e","a","w","a","y","s">>, level |-> 0],
    [text |-> <<"F","u","t","u","r","e"," ","o","u","t","l","o","o","k"," ","a","n","d"," ","r","e","c","o","m","m","e","n","d","a","t","i","o","n","s">>, level |-> 0],
    [text |-> <<"Q","&","A"," ","a","n","d"," ","d","i","s","c","u","s","s","i","o","n">>, level |-> 0] >>

\* any(keyword in title.lower() for keyword in [...])
HasConclusionKeyword(title) ==
    \E k \in 1..Len(conclusion_keywords) : Contains(Lower(title), conclusion_keywords[k])

ensure_conclusion_slide(d) ==
    LET last_section == IF d # <<>> THEN d[Len(d)].key ELSE <<>>
    IN IF ~ HasConclusionKeyword(last_section)
       THEN DictSet(d, sConclusion, ConclusionBullets)
       ELSE d

MaxOutline == 3     \* sections of an outline passed to ensure_conclusion_slide

tKeyConclusions == <<"K","e","y"," ","C","o","n","c","l","u","s","i","o","n","s">>
tSummary == <<"S","u","m","m","a","r","y">>
tFinal == <<"F","i","n","a","l"," ","w","o","r","d","s">>
tWrapUp == <<"W","r","a","p","-","u","p">>

OutlineKeys == {tGoals, tPlan, sIntroduction, sConclusion, tKeyConclusions,
                tSummary, tFinal, tWrapUp}

\* the bullet list of the k-th section of an input outline: k - 1 bullets
BulletsOfSize(n) == [j \in 1..n |-> [text |-> <<LowerCase[j]>>, level |-> 0]]

\* outlines of at most n sections with distinct keys; section k has k - 1
\* bullets
OutlinesUpTo(n) ==
    {[k \in 1..Len(ks) |-> [key |-> ks[k], value |-> BulletsOfSize(k - 1)]] :
        ks \in {q \in SeqsUpTo(OutlineKeys, n) :
                   \A i, j \in 1..Len(q) : q[i] = q[j] => i = j}}

ConclusionOff == ec_arg = <<>> /\ ec_ret = <<>> /\ ec_pc = "off"

InitConclusion ==
    /\ ec_arg \in OutlinesUpTo(MaxOutline)
    /\ ec_ret = <<>>
    /\ ec_pc = "call"

\* the call ensure_conclusion_slide(outline, presentation_title)
EnsureConclusion ==
    /\ ec_pc = "call"
    /\ ec_ret' = ensure_conclusion_slide(ec_arg)
    /\ ec_pc' = "done"
    /\ UNCHANGED ec_arg
    /\ UNCHANGED <<parserVars, layoutVars, presentationVars, mainVars, flaskVars, slideVars, pptVars>>

NextConclusion ==
    EnsureConclusion

-----------------------------------------------------------------------------
(* determine_slide_layout *)

Modules == {"ppt_generator", "ppt"}

image_layouts(module) ==
    IF module = "ppt_generator"
    THEN <<"image_left_text_right", "image_right_text_left", "title">>
    ELSE <<"image_left_text_right", "image_right_text_left">>

content_layouts == <<"title_content", "two_column">>

FewBullets == 2
ManyBullets == 5

\* the list random.choice draws from (lines 334-355)
layout_options(module, detail_level, content_length) ==
    LET all_layouts == image_layouts(module) \o content_layouts
        base == IF detail_level = "detailed"
                THEN content_layouts \o image_layouts(module)
                ELSE all_layouts
        few == IF content_length <= FewBullets /\ image_layouts(module) # <<>>
               THEN image_layouts(module) \o content_layouts
               ELSE base
    IN IF content_length >= ManyBullets /\ content_layouts # <<>>
       THEN content_layouts \o image_layouts(module)
       ELSE few

\* determine_slide_layout with the slide_index 1 test before the conclusion
\* test
determine_slide_layout_Swapped(module, slide_index, detail_level, content_length, section_title) ==
    IF slide_index = 0
    THEN {[layout |-> "title", random |-> FALSE]}
    ELSE IF slide_index = 1
    THEN {[layout |-> "title_content", random |-> FALSE]}
    ELSE IF Contains(Lower(section_title), conclusion_keywords[1])
    THEN {[layout |-> "conclusion", random |-> FALSE]}
    ELSE LET opts == layout_options(module, detail_level, content_length)
         IN {[layout |-> opts[k], random |-> TRUE] : k \in 1..Len(opts)}

\* the possible results of determine_slide_layout, each with the flag
\* "random.choice was executed"
determine_slide_layout(module, slide_index, detail_level, content_length, section_title) ==
    IF slide_index = 0
    THEN {[layout |-> "title", random |-> FALSE]}
    ELSE IF Contains(Lower(section_title), conclusion_keywords[1])
    THEN {[layout |-> "conclusion", random |-> FALSE]}
    ELSE IF slide_index = 1
    THEN {[layout |-> "title_content", random |-> FALSE]}
    ELSE LET opts == layout_options(module, detail_level, content_length)
         IN {[layout |-> opts[k], random |-> TRUE] : k \in 1..Len(opts)}

MaxSlideIndex == 3      \* largest slide_index of a call
MaxContentLength == 6   \* largest content_length of a call

DetailLevels == {"simple", "detailed"}

LayoutArgs ==
    [module : Modules,
     slide_index : 0..MaxSlideIndex,
     detail_level : DetailLevels,
     content_length : 0..MaxContentLength,
     section_title : {tGoals, sConclusion, tKeyConclusions, tSummary}]

LayoutOff == dl_args = <<>> /\ dl_ret = "" /\ dl_random = FALSE /\ dl_pc = "off"

InitLayout ==
    /\ dl_args \in LayoutArgs
    /\ dl_ret = ""
    /\ dl_random = FALSE
    /\ dl_pc = "call"

\* the call determine_slide_layout(slide_index, detail_level, content_length,
\* outline, section_title)
DetermineLayout ==
    /\ dl_pc = "call"
    /\ \E r \in determine_slide_layout(dl_args.module, dl_args.slide_index,
                                       dl_args.detail_level, dl_args.content_length,
                                       dl_args.section_title) :
          /\ dl_ret' = r.layout
          /\ dl_random' = r.random
    /\ dl_pc' = "done"
    /\ UNCHANGED dl_args
    /\ UNCHANGED <<parserVars, conclusionVars, presentationVars, mainVars, flaskVars, slideVars, pptVars>>

NextLayout ==
    DetermineLayout

-----------------------------------------------------------------------------
(* ppt_generator.py: create_presentation *)

ImageLayouts == {"image_left_text_right", "image_right_text_left", "image_full"}

ExtraKeywords == 5

\* len(get_relevant_image_queries(title, section, points, is_detailed))
NumQueries(points) == 2 + ExtraKeywords + (IF points # <<>> THEN 1 ELSE 0)

\* what one search-and-download attempt can give: no search result, a
\* failed download, or a downloaded file that is a usable image, is gone
\* when it is opened ("missing": the slide gets a placeholder), or is not
\* an image
QueryOutcomes == {"empty", "failed", "usable", "missing", "unusable"}

\* line 1066: the folder the images are downloaded to, a folder of the
\* working directory that the call creates when it is missing and never
\* removes
image_folder == "Img"

\* the image file written by download_image for the title slide (slide 0)
\* or for the section at slide_index
ImageFile(folder, slide_index) == [folder |-> folder, slide |-> slide_index]

Slide(kind, layout, section, image) ==
    [kind |-> kind, layout |-> layout, section |-> section, image |-> image]

MaxDeck == 3        \* sections of an outline passed to create_presentation

PresentationKeys == {tGoals, tPlan, sIntroduction, tKeyConclusions}

PresentationOutlines ==
    {d \in OutlinesUpTo(MaxDeck) :
        \A k \in 1..Len(d) : d[k].key \in PresentationKeys}

PresentationOff ==
    /\ cp_outline = <<>>
    /\ cp_detail = ""
    /\ cp_pc = "off"
    /\ cp_i = 0
    /\ cp_q = 0
    /\ cp_layout = ""
    /\ cp_title_image = FALSE
    /\ slides = <<>>
    /\ cp_error = ""
    /\ cp_files = {}

InitPresentation ==
    /\ cp_outline \in PresentationOutlines
    /\ cp_detail \in DetailLevels
    /\ cp_pc = "start"
    /\ cp_i = 0
    /\ cp_q = 0
    /\ cp_layout = ""
    /\ cp_title_image = FALSE
    /\ slides = <<>>
    /\ cp_error = ""
    /\ cp_files = {}

\* the except clause of lines 1169-1171: the exception is re-raised
Raise(error) ==
    /\ cp_pc' = "raised"
    /\ cp_error' = error

\* lines 1054-1069: the Groq client, the palette, the empty presentation
CPSetup ==
    /\ cp_pc = "start"
    /\ \E GROQ_API_KEY \in BOOLEAN :
          IF initialize_groq_client(GROQ_API_KEY) # "ValueError"
          THEN cp_pc' = "title_queries" /\ UNCHANGED cp_error
          ELSE Raise("groq")
    /\ UNCHANGED <<cp_outline, cp_detail, cp_i, cp_q, cp_layout, cp_title_image, slides,
                   cp_files>>
    /\ UNCHANGED <<parserVars, conclusionVars, layoutVars, mainVars, flaskVars, slideVars, pptVars>>

\* lines 1074-1080: the queries for the title image, built from the points
\* of the first section
CPTitleQueries ==
    /\ cp_pc = "title_queries"
    /\ IF cp_outline = <<>>
       THEN Raise("IndexError") /\ UNCHANGED cp_q
       ELSE cp_pc' = "title_query" /\ cp_q' = 1 /\ UNCHANGED cp_error
    /\ UNCHANGED <<cp_outline, cp_detail, cp_i, cp_layout, cp_title_image, slides,
                   cp_files>>
    /\ UNCHANGED <<parserVars, conclusionVars, layoutVars, mainVars, flaskVars, slideVars, pptVars>>

\* lines 1082-1093: one query for the title image
CPTitleQuery ==
    /\ cp_pc = "title_query"
    /\ \E o \in {"empty", "failed", "ok"} :
          IF o = "ok"
          THEN /\ cp_title_image' = TRUE /\ cp_pc' = "title_slide" /\ UNCHANGED cp_q
               /\ cp_files' = cp_files \cup {ImageFile(image_folder, 0)}
          ELSE /\ UNCHANGED <<cp_title_image, cp_files>>
               /\ IF cp_q < NumQueries(cp_outline[1].value)
                  THEN cp_q' = cp_q + 1 /\ UNCHANGED cp_pc
                  ELSE cp_pc' = "title_slide" /\ UNCHANGED cp_q
    /\ UNCHANGED <<cp_outline, cp_detail, cp_i, cp_layout, slides, cp_error>>
    /\ UNCHANGED <<parserVars, conclusionVars, layoutVars, mainVars, flaskVars, slideVars, pptVars>>

\* lines 1095-1106: the title slide, with the image when its file exists
CPTitleSlide ==
    /\ cp_pc = "title_slide"
    /\ \E file \in {"usable", "missing", "unusable"} :
          /\ cp_files' = IF file = "missing"
                         THEN cp_files \ {ImageFile(image_folder, 0)}
                         ELSE cp_files
          /\ IF cp_title_image /\ file # "missing"
             THEN \* create_image_title_slide: add_slide, then Image.open
                  /\ slides' = Append(slides, Slide("title", "title", <<>>, file))
                  /\ IF file = "usable"
                     THEN cp_pc' = "section" /\ cp_i' = 1 /\ UNCHANGED cp_error
                     ELSE Raise("title_image") /\ UNCHANGED cp_i
             ELSE \* create_title_slide
                  /\ slides' = Append(slides, Slide("title", "title", <<>>, "none"))
                  /\ cp_pc' = "section" /\ cp_i' = 1 /\ UNCHANGED cp_error
    /\ UNCHANGED <<cp_outline, cp_detail, cp_q, cp_layout, cp_title_image>>
    /\ UNCHANGED <<parserVars, conclusionVars, layoutVars, mainVars, flaskVars, slideVars, pptVars>>

\* lines 1111-1121 and 1145-1149: the layout of the next section and, unless
\* it is an image layout, its slide
CPSection ==
    /\ cp_pc = "section"
    /\ cp_i <= Len(cp_outline)
    /\ LET section == cp_outline[cp_i].key
           points == cp_outline[cp_i].value
       IN \E r \in determine_slide_layout("ppt_generator", cp_i, cp_detail,
                                          Len(points), section) :
             /\ cp_layout' = r.layout
             /\ IF r.layout \in ImageLayouts
                THEN /\ cp_pc' = "section_query"
                     /\ cp_q' = 1
                     /\ UNCHANGED <<cp_i, slides>>
                ELSE /\ slides' = IF r.layout \in {"title_content", "two_column", "conclusion"}
                                  THEN Append(slides, Slide(r.layout, r.layout, section, "none"))
                                  ELSE slides
                     /\ cp_i' = cp_i + 1
                     /\ UNCHANGED <<cp_pc, cp_q>>
    /\ UNCHANGED <<cp_outline, cp_detail, cp_title_image, cp_error, cp_files>>
    /\ UNCHANGED <<parserVars, conclusionVars, layoutVars, mainVars, flaskVars, slideVars, pptVars>>

\* lines 1125-1143: one query for the image of the section; the slide when
\* an image was downloaded or when the last query failed
CPSectionQuery ==
    /\ cp_pc = "section_query"
    /\ LET section == cp_outline[cp_i].key
           points == cp_outline[cp_i].value
       IN \E o \in QueryOutcomes :
             /\ cp_files' = IF o \in {"usable", "unusable"}
                            THEN cp_files \cup {ImageFile(image_folder, cp_i)}
                            ELSE cp_files
             /\ IF o \in {"empty", "failed"}
                THEN IF cp_q < NumQueries(points)
                     THEN cp_q' = cp_q + 1 /\ UNCHANGED <<cp_pc, cp_i, slides, cp_error>>
                     ELSE \* image_found is False: the title_content slide
                          /\ slides' = Append(slides, Slide("title_content", cp_layout,
                                                            section, "none"))
                          /\ cp_pc' = "section" /\ cp_i' = cp_i + 1
                          /\ UNCHANGED <<cp_q, cp_error>>
                ELSE IF cp_layout = "image_full"
                THEN \* image_found is True and no slide function is called
                     /\ cp_pc' = "section" /\ cp_i' = cp_i + 1
                     /\ UNCHANGED <<cp_q, slides, cp_error>>
                ELSE \* create_image_..._slide: add_slide, then Image.open
                     /\ slides' = Append(slides, Slide(cp_layout, cp_layout, section,
                                                       IF o = "missing" THEN "placeholder" ELSE o))
                     /\ IF o = "unusable"
                        THEN Raise("section_image") /\ UNCHANGED <<cp_i, cp_q>>
                        ELSE /\ cp_pc' = "section" /\ cp_i' = cp_i + 1
                             /\ UNCHANGED <<cp_q, cp_error>>
    /\ UNCHANGED <<cp_outline, cp_detail, cp_layout, cp_title_image>>
    /\ UNCHANGED <<parserVars, conclusionVars, layoutVars, mainVars, flaskVars, slideVars, pptVars>>

\* line 1162: the thank-you slide after the last section
CPThankYou ==
    /\ cp_pc = "section"
    /\ cp_i > Len(cp_outline)
    /\ slides' = Append(slides, Slide("thank_you", "thank_you", <<>>, "none"))
    /\ cp_pc' = "save"
    /\ UNCHANGED <<cp_outline, cp_detail, cp_i, cp_q, cp_layout, cp_title_image, cp_error,
                   cp_files>>
    /\ UNCHANGED <<parserVars, conclusionVars, layoutVars, mainVars, flaskVars, slideVars, pptVars>>

\* lines 1165-1167: prs.save(filename) and the return
CPSave ==
    /\ cp_pc = "save"
    /\ \E saved \in BOOLEAN :
          IF saved
          THEN cp_pc' = "returned" /\ UNCHANGED cp_error
          ELSE Raise("save")
    /\ UNCHANGED <<cp_outline, cp_detail, cp_i, cp_q, cp_layout, cp_title_image, slides,
                   cp_files>>
    /\ UNCHANGED <<parserVars, conclusionVars, layoutVars, mainVars, flaskVars, slideVars, pptVars>>

NextPresentation ==
    \/ CPSetup
    \/ CPTitleQueries
    \/ CPTitleQuery
    \/ CPTitleSlide
    \/ CPSection
    \/ CPSectionQuery
    \/ CPThankYou
    \/ CPSave

-----------------------------------------------------------------------------
(* ppt_generator.py, ppt.py: create_two_column_slide;
   ppt_generator.py: create_image_left_text_right_slide,
   create_image_right_text_left_slide *)

EMU_PER_INCH == 914400

\* Inches(x).emu = int(x * 914400), for x given in tenths of an inch
Inches(tenths) == (tenths * EMU_PER_INCH) \div 10

\* floor(log2(n)) for 1 <= n < 2^31
Log2(n) == CHOOSE t \in 0..30 : 2^t <= n /\ (t = 30 \/ n < 2^(t + 1))

RECURSIVE PowMod(_, _)
\* 2^e modulo m
PowMod(e, m) == IF e = 0 THEN 1 % m ELSE (2 * PowMod(e - 1, m)) % m

\* The IEEE double x = a / b, for integers a >= b >= 1, is m * 2^(-k) with
\* 2^52 <= m < 2^53 and m the quotient a * 2^k / b rounded to the nearest
\* integer, ties to the even one.  x is below the quotient a / b exactly
\* when the division was rounded down: TRUE in that case.
DivRoundedDown(a, b) ==
    LET k == 52 - Log2(a \div b)
        r == ((a % b) * PowMod(k, b)) % b                   \* (a * 2^k) mod b
        r2 == ((a % (2 * b)) * PowMod(k, 2 * b)) % (2 * b)  \* (a * 2^k) mod 2b
    IN IF 2 * r < b THEN r > 0
       ELSE IF 2 * r > b THEN FALSE
       ELSE r2 < b          \* a tie and an even quotient

\* int(c * (a / b)) in double arithmetic, for a >= b.  The product of c and
\* the double a / b differs from c * a / b by less than the distance of
\* c * a / b to an integer unless c * a / b is an integer N; then the
\* product is rounded to the double below N, and truncated to N - 1, when
\* the division was rounded down by more than half the spacing of the
\* doubles below N.
TruncMulDiv(c, a, b) ==
    LET N == (c * a) \div b
        t == Log2(a \div b)
        k == 52 - t
        r == ((a % b) * PowMod(k, b)) % b
        j == Log2(N)
        jj == IF N = 2^j THEN j - 1 ELSE j
        lhs == IF jj >= t THEN 2 * c * r ELSE 2 * c * r * 2^(t - jj)
        rhs == IF jj >= t THEN b * 2^(jj - t) ELSE b
    IN IF (c * a) % b # 0 THEN N
       ELSE IF ~ DivRoundedDown(a, b) THEN N
       ELSE IF lhs > rhs THEN N - 1 ELSE N

\* the fit with max in the place of min
image_fit_Max(container_width_emu, container_height_emu, original_width_px, original_height_px) ==
    LET by_width == container_width_emu * original_height_px
                       >= container_height_emu * original_width_px
        a == IF by_width THEN container_width_emu ELSE container_height_emu
        b == IF by_width THEN original_width_px ELSE original_height_px
    IN [width |-> TruncMulDiv(original_width_px, a, b),
        height |-> TruncMulDiv(original_height_px, a, b)]

\* lines 689-694 and 833-838: scale_factor = min(ratio_w, ratio_h) and the
\* size of the picture, new_width_emu and new_height_emu
image_fit(container_width_emu, container_height_emu, original_width_px, original_height_px) ==
    LET by_width == container_width_emu * original_height_px
                       <= container_height_emu * original_width_px
        a == IF by_width THEN container_width_emu ELSE container_height_emu
        b == IF by_width THEN original_width_px ELSE original_height_px
    IN [width |-> TruncMulDiv(original_width_px, a, b),
        height |-> TruncMulDiv(original_height_px, a, b)]

\* the image container of the two image slides: left, top, width, height
img_container(fn) ==
    IF fn = "create_image_left_text_right_slide"
    THEN [left |-> Inches(8), top |-> Inches(15), width |-> Inches(40), height |-> Inches(45)]
    ELSE [left |-> Inches(52), top |-> Inches(15), width |-> Inches(43), height |-> Inches(45)]

\* a shape in the image container; left_x2 and top_x2 are twice the left
\* and the top (the code passes halves of EMU to add_picture)
Shape(kind, left_x2, top_x2, width, height) ==
    [kind |-> kind, left_x2 |-> left_x2, top_x2 |-> top_x2,
     width |-> width, height |-> height]

NoShape == Shape("none", 0, 0, 0, 0)

\* lines 681-700 and 825-844: what is put into the image container
image_shape(fn, image) ==
    LET c == img_container(fn)
    IN IF image.kind = "missing"
       THEN Shape("placeholder", 2 * c.left, 2 * c.top, c.width, c.height)
       ELSE LET new == image_fit(c.width, c.height, image.width, image.height)
            IN Shape("picture",
                     2 * c.left + (c.width - new.width),
                     2 * c.top + (c.height - new.height),
                     new.width, new.height)

BLACK_CIRCLE == "BLACK_CIRCLE"      \* U+25CF

\* the text that starts the paragraph of a point
point_prefix(module, fn) ==
    IF module = "ppt" THEN <<>>
    ELSE IF fn = "create_two_column_slide" THEN <<BULLET, " ", " ">>
    ELSE <<BLACK_CIRCLE, " ", " ">>

\* the paragraphs of a text frame after the loop over its points: a new
\* text frame has one empty paragraph, which the first point takes
Paragraphs(prefix, points) ==
    IF points = <<>> THEN << [text |-> <<>>, level |-> 0] >>
    ELSE [k \in 1..Len(points) |->
             [text |-> prefix \o points[k].text, level |-> points[k].level]]

\* the split with the middle rounded up
mid_point_Ceil(points) == (Len(points) + 1) \div 2

\* mid_point = len(points) // 2
mid_point(points) == Len(points) \div 2

\* points[:mid_point]
left_points(points) == SubSeq(points, 1, mid_point(points))

\* points[mid_point:]
right_points(points) == SubSeq(points, mid_point(points) + 1, Len(points))

MaxPoints == 5      \* points of a slide

SlidePoints ==
    SeqsUpTo({[text |-> <<"a">>, level |-> 0], [text |-> <<"b">>, level |-> 1]},
             MaxPoints)

\* sides of the downloaded image, in pixels
ImagePixels == {1, 21, 100, 110, 190, 300, 400, 500}

SlideImages ==
    {[kind |-> "image", width |-> w, height |-> h] : w, h \in ImagePixels}
    \cup {[kind |-> "missing", width |-> 0, height |-> 0],
          [kind |-> "unusable", width |-> 0, height |-> 0]}

NoImage == [kind |-> "none", width |-> 0, height |-> 0]

SlideCalls ==
    {[fn |-> "create_two_column_slide", module |-> m, points |-> p, image |-> NoImage] :
        m \in Modules, p \in SlidePoints}
    \cup
    {[fn |-> f, module |-> "ppt_generator", points |-> p, image |-> i] :
        f \in {"create_image_left_text_right_slide", "create_image_right_text_left_slide"},
        p \in {q \in SlidePoints : Len(q) <= 1},
        i \in SlideImages}

SlideOff ==
    /\ sl_call = <<>>
    /\ sl_frames = <<>>
    /\ sl_shape = NoShape
    /\ sl_pc = "off"

InitSlide ==
    /\ sl_call \in SlideCalls
    /\ sl_frames = <<>>
    /\ sl_shape = NoShape
    /\ sl_pc = "call"

\* create_two_column_slide(prs, section, points, ...): the left and the
\* right text frame
TwoColumnSlide ==
    /\ sl_pc = "call"
    /\ sl_call.fn = "create_two_column_slide"
    /\ LET prefix == point_prefix(sl_call.module, sl_call.fn)
       IN sl_frames' = << Paragraphs(prefix, left_points(sl_call.points)),
                          Paragraphs(prefix, right_points(sl_call.points)) >>
    /\ sl_pc' = "returned"
    /\ UNCHANGED <<sl_call, sl_shape>>
    /\ UNCHANGED <<parserVars, conclusionVars, layoutVars, presentationVars, mainVars,
                   flaskVars, pptVars>>

\* create_image_left_text_right_slide and create_image_right_text_left_slide
\* of ppt_generator.py: Image.open raises for a file that is not an image
\* (only FileNotFoundError is caught), otherwise the picture or the
\* placeholder and then the text frame
ImageSlide ==
    /\ sl_pc = "call"
    /\ sl_call.fn # "create_two_column_slide"
    /\ IF sl_call.image.kind = "unusable"
       THEN /\ sl_pc' = "raised"
            /\ UNCHANGED <<sl_frames, sl_shape>>
       ELSE /\ sl_shape' = image_shape(sl_call.fn, sl_call.image)
            /\ sl_frames' = << Paragraphs(point_prefix(sl_call.module, sl_call.fn),
                                          sl_call.points) >>
            /\ sl_pc' = "returned"
    /\ UNCHANGED sl_call
    /\ UNCHANGED <<parserVars, conclusionVars, layoutVars, presentationVars, mainVars,
                   flaskVars, pptVars>>

NextSlide ==
    \/ TwoColumnSlide
    \/ ImageSlide

-----------------------------------------------------------------------------
(* ppt_generator.py, ppt.py: main, the command-line pipeline *)

theme_folder == <<"t","h","e","m","e","s">>
sPptx == <<".","p","p","t","x">>

\* os.path.exists(path) on the file system fs = [dirs, files]
Exists(fs, path) == path \in fs.dirs \/ path \in fs.files

\* get_theme_path(theme_name, theme_folder): os.path.join(folder, name + ".pptx")
get_theme_path(theme_name, folder) == folder \o <<"/">> \o theme_name \o sPptx

\* list_available_themes(theme_folder): the file system after the call (the
\* folder is created when it is missing) and the names listed
list_available_themes(fs, folder) ==
    IF ~ Exists(fs, folder)
    THEN [fs |-> [fs EXCEPT !.dirs = @ \cup {folder}], themes |-> {}]
    ELSE [fs |-> fs,
          themes |-> {From(p, Len(folder) + 2) :
                         p \in {q \in fs.files : /\ StartsWith(q, folder \o <<"/">>)
                                                  /\ EndsWith(q, sPptx)}}]

\* main_theme_path that keeps the path of a theme whose file does not exist
main_theme_path_Unchecked(theme, fs, available_themes) ==
    IF available_themes # {}
    THEN IF Truthy(theme)
         THEN get_theme_path(theme, theme_folder)
         ELSE None
    ELSE None

\* the theme selection of main (ppt_generator.py lines 1203-1218, ppt.py lines
\* 706-722): theme_path after it
main_theme_path(theme, fs, available_themes) ==
    IF available_themes # {}
    THEN IF Truthy(theme)
         THEN IF ~ Exists(fs, get_theme_path(theme, theme_folder))
              THEN None
              ELSE get_theme_path(theme, theme_folder)
         ELSE None
    ELSE None

\* the presentation create_presentation starts from: ppt.py (lines 598-609)
\* loads the theme when theme_path is set and its file exists, and a blank
\* one otherwise; ppt_generator.py (line 1062) always starts from a blank one
template_of(module, theme_path, fs) ==
    IF module = "ppt" /\ Truthy(theme_path) /\ Exists(fs, theme_path)
    THEN "theme"
    ELSE "blank"

tOcean == <<"o","c","e","a","n">>
tSky == <<"s","k","y">>
tAI == <<"A","I">>
tTwoLines == <<"x", NL, "y">>
tNotes == <<"n","o","t","e","s",".","t","x","t">>

\* the topics of the command line
Topics == {tAI, tTwoLines}

\* the values of --theme
ThemeArgs == {None, tOcean, tSky}

\* states of the themes folder: missing, empty, without a theme, with one
\* theme, with two themes
FileSystems ==
    { [dirs |-> {}, files |-> {}],
      [dirs |-> {theme_folder}, files |-> {}],
      [dirs |-> {theme_folder}, files |-> {theme_folder \o <<"/">> \o tNotes}],
      [dirs |-> {theme_folder}, files |-> {get_theme_path(tOcean, theme_folder)}],
      [dirs |-> {theme_folder}, files |-> {get_theme_path(tOcean, theme_folder),
                                            get_theme_path(tSky, theme_folder)}] }

\* what the request of get_presentation_outline can give
Responses ==
    { LLMError, <<>>,
      JoinLines(Sectioned(<<Bold(tGoals), Bold(tPlan)>>, 1)) }

MainOff ==
    /\ m_module = ""
    /\ m_args = <<>>
    /\ m_key = FALSE
    /\ m_fs = <<>>
    /\ m_pc = "off"
    /\ m_theme_path = None
    /\ m_outline = <<>>
    /\ m_title = None
    /\ m_mock = FALSE
    /\ m_prs = ""
    /\ m_error = ""

InitMain ==
    /\ m_module \in Modules
    /\ m_args \in [topic : Topics, detail : DetailLevels, theme : ThemeArgs]
    /\ m_key \in BOOLEAN
    /\ m_fs \in FileSystems
    /\ m_pc = "start"
    /\ m_theme_path = None
    /\ m_outline = <<>>
    /\ m_title = None
    /\ m_mock = FALSE
    /\ m_prs = ""
    /\ m_error = ""

\* the theme selection
MainThemes ==
    /\ m_pc = "start"
    /\ LET listed == list_available_themes(m_fs, theme_folder)
       IN /\ m_fs' = listed.fs
          /\ m_theme_path' = main_theme_path(m_args.theme, listed.fs, listed.themes)
    /\ m_pc' = "outline"
    /\ UNCHANGED <<m_module, m_args, m_key, m_outline, m_title, m_mock, m_prs, m_error>>
    /\ UNCHANGED <<parserVars, conclusionVars, layoutVars, presentationVars, flaskVars, slideVars, pptVars>>

\* generate_outline(args.topic, args.detail), llm_utils.py lines 406-467, for
\* a truthy topic and detail level.  First the text to parse: the response
\* of the request, or the mock outline when the client cannot be made or the
\* request raises (the except clause of line 443)
MainRequestOutline ==
    /\ m_pc = "outline"
    /\ ppc = "off"
    /\ \E response \in (IF initialize_groq_client(m_key) = "ValueError"
                         THEN {LLMError}      \* no client, no request
                         ELSE Responses) :
          /\ m_mock' = (response = LLMError)
          /\ llm_output' = IF response = LLMError
                           THEN get_mock_outline(m_args.topic, m_args.detail)
                           ELSE response
    /\ ppc' = "start"
    /\ UNCHANGED <<lines, idx, outline, current_slide, slide_content, main_title,
                   bullets_out>>
    /\ UNCHANGED <<m_module, m_args, m_key, m_fs, m_pc, m_theme_path, m_outline,
                   m_title, m_prs, m_error>>
    /\ UNCHANGED <<conclusionVars, layoutVars, presentationVars, flaskVars, slideVars, pptVars>>

\* then parse_llm_output_to_outline(outline_text), a step of the parser
MainParse ==
    /\ m_pc = "outline"
    /\ ParseStart \/ ParseLine \/ ParseFinish

\* then the title (the topic when the parser gave none) and the return
MainOutline ==
    /\ m_pc = "outline"
    /\ ppc = "done"
    /\ m_outline' = outline
    /\ m_title' = IF Truthy(main_title) THEN main_title ELSE m_args.topic
    /\ m_pc' = "conclusion"
    /\ UNCHANGED <<m_module, m_args, m_key, m_fs, m_theme_path, m_mock, m_prs, m_error>>
    /\ UNCHANGED <<parserVars, conclusionVars, layoutVars, presentationVars, flaskVars, slideVars, pptVars>>

\* outline = ensure_conclusion_slide(outline, presentation_title)
MainEnsureConclusion ==
    /\ m_pc = "conclusion"
    /\ m_outline' = ensure_conclusion_slide(m_outline)
    /\ m_pc' = "create"
    /\ UNCHANGED <<m_module, m_args, m_key, m_fs, m_theme_path, m_title, m_mock,
                   m_prs, m_error>>
    /\ UNCHANGED <<parserVars, conclusionVars, layoutVars, presentationVars, flaskVars, slideVars, pptVars>>

\* create_presentation(...) up to the presentation it starts from:
\* ppt_generator.py first needs the Groq client (lines 1056-1062); ppt.py
\* opens the theme file, which fails when the file is not a presentation
MainOpenTemplate ==
    /\ m_pc = "create"
    /\ IF m_module = "ppt_generator" /\ initialize_groq_client(m_key) = "ValueError"
       THEN m_pc' = "failed" /\ m_error' = "ValueError" /\ UNCHANGED m_prs
       ELSE LET t == template_of(m_module, m_theme_path, m_fs)
            IN \E valid \in BOOLEAN :
                  IF t = "theme" /\ ~ valid
                  THEN m_pc' = "failed" /\ m_error' = "theme" /\ UNCHANGED m_prs
                  ELSE m_pc' = "render" /\ m_prs' = t /\ UNCHANGED m_error
    /\ UNCHANGED <<m_module, m_args, m_key, m_fs, m_theme_path, m_outline, m_title,
                   m_mock>>
    /\ UNCHANGED <<parserVars, conclusionVars, layoutVars, presentationVars, flaskVars, slideVars, pptVars>>

\* the rest of create_presentation: the slides and prs.save(args.output); an
\* exception of it ends main
MainRender ==
    /\ m_pc = "render"
    /\ \E saved \in BOOLEAN :
          IF saved
          THEN m_pc' = "done" /\ UNCHANGED m_error
          ELSE m_pc' = "failed" /\ m_error' = "render"
    /\ UNCHANGED <<m_module, m_args, m_key, m_fs, m_theme_path, m_outline, m_title,
                   m_mock, m_prs>>
    /\ UNCHANGED <<parserVars, conclusionVars, layoutVars, presentationVars, flaskVars, slideVars, pptVars>>

NextMain ==
    \/ MainThemes
    \/ MainRequestOutline
    \/ MainParse
    \/ MainOutline
    \/ MainEnsureConclusion
    \/ MainOpenTemplate
    \/ MainRender

-----------------------------------------------------------------------------
(* ppt.py: create_presentation *)

\* a slide the theme file brings along
ThemeSlide == Slide("theme", "theme", <<>>, "none")

\* del sldIdLst[i] for the 0-based index i
DeleteAt(sldIdLst, i) == SubSeq(sldIdLst, 1, i) \o SubSeq(sldIdLst, i + 2, Len(sldIdLst))

RECURSIVE DeleteDownFrom(_, _)
\* lines 602-605: the rest of the loop for i in range(len(prs.slides) - 1, -1, -1)
\* from the index i on
DeleteDownFrom(sldIdLst, i) ==
    IF i < 0 THEN sldIdLst
    ELSE DeleteDownFrom(DeleteAt(sldIdLst, i), i - 1)

\* the loop started at the last index but one
delete_existing_slides_FromSecondLast(sldIdLst) ==
    DeleteDownFrom(sldIdLst, Len(sldIdLst) - 2)

\* lines 601-605: delete all existing slides from the template
delete_existing_slides(sldIdLst) ==
    DeleteDownFrom(sldIdLst, Len(sldIdLst) - 1)

MaxThemeSlides == 2     \* slides in a theme file

\* the file at theme_path: missing, not a presentation, or a presentation
\* with 0..MaxThemeSlides slides
ThemeFiles ==
    {[exists |-> FALSE, valid |-> FALSE, slides |-> 0],
     [exists |-> TRUE, valid |-> FALSE, slides |-> 0]}
    \cup {[exists |-> TRUE, valid |-> TRUE, slides |-> k] : k \in 0..MaxThemeSlides}

MaxPptDeck == 2     \* sections of an outline passed to ppt.create_presentation

PptCalls ==
    [outline : {d \in PresentationOutlines : Len(d) <= MaxPptDeck},
     detail_level : DetailLevels,
     theme_path : {None, get_theme_path(tOcean, theme_folder)}]

\* what the search and the download of the image of a section can give:
\* no query gives a file, a file that add_picture accepts, a file that it
\* does not accept
ImageOutcomes == {"none", "usable", "unusable"}

\* the image file in the temporary directory for the section at slide_index
TempFile(slide_index) == ImageFile("temp_dir", slide_index)

PptOff ==
    /\ pp_call = <<>>
    /\ pp_file = <<>>
    /\ pp_pc = "off"
    /\ pp_i = 0
    /\ pp_slides = <<>>
    /\ pp_tmp = {}
    /\ pp_saved = <<>>
    /\ pp_error = ""

InitPpt ==
    /\ pp_call \in PptCalls
    /\ pp_file \in ThemeFiles
    /\ pp_pc = "start"
    /\ pp_i = 0
    /\ pp_slides = <<>>
    /\ pp_tmp = {}
    /\ pp_saved = <<>>
    /\ pp_error = ""

\* the except clause of lines 668-671: the exception is re-raised; the
\* temporary directory is removed when the with statement is left
PptRaise(error) ==
    /\ pp_pc' = "raised"
    /\ pp_error' = error
    /\ pp_tmp' = {}

\* lines 598-609: the presentation to start from, the theme without its
\* slides or a blank one
PptOpen ==
    /\ pp_pc = "start"
    /\ IF Truthy(pp_call.theme_path) /\ pp_file.exists
       THEN IF pp_file.valid
            THEN /\ pp_slides' = delete_existing_slides([k \in 1..pp_file.slides |-> ThemeSlide])
                 /\ pp_pc' = "title"
                 /\ UNCHANGED <<pp_error, pp_tmp>>
            ELSE PptRaise("theme") /\ UNCHANGED pp_slides
       ELSE /\ pp_slides' = <<>>
            /\ pp_pc' = "title"
            /\ UNCHANGED <<pp_error, pp_tmp>>
    /\ UNCHANGED <<pp_call, pp_file, pp_i, pp_saved>>
    /\ UNCHANGED <<parserVars, conclusionVars, layoutVars, presentationVars, mainVars,
                   flaskVars, slideVars>>

\* line 612: the title slide
PptTitleSlide ==
    /\ pp_pc = "title"
    /\ pp_slides' = Append(pp_slides, Slide("title", "title", <<>>, "none"))
    /\ pp_pc' = "section"
    /\ pp_i' = 1
    /\ UNCHANGED <<pp_call, pp_file, pp_tmp, pp_saved, pp_error>>
    /\ UNCHANGED <<parserVars, conclusionVars, layoutVars, presentationVars, mainVars,
                   flaskVars, slideVars>>

\* lines 617-660: the layout and the slide of the next section; for an
\* image layout the loop over the queries, the image slide for the first
\* downloaded file and the title_content slide when there is none
PptSection ==
    /\ pp_pc = "section"
    /\ pp_i <= Len(pp_call.outline)
    /\ LET section == pp_call.outline[pp_i].key
           points == pp_call.outline[pp_i].value
       IN \E r \in determine_slide_layout("ppt", pp_i, pp_call.detail_level,
                                          Len(points), section) :
             IF r.layout \in ImageLayouts
             THEN \E o \in ImageOutcomes :
                     IF o = "none"
                     THEN /\ pp_slides' = Append(pp_slides, Slide("title_content", r.layout,
                                                                  section, "none"))
                          /\ pp_i' = pp_i + 1
                          /\ UNCHANGED <<pp_pc, pp_tmp, pp_error>>
                     ELSE IF o = "usable"
                     THEN /\ pp_slides' = Append(pp_slides, Slide(r.layout, r.layout,
                                                                  section, o))
                          /\ pp_tmp' = pp_tmp \cup {TempFile(pp_i)}
                          /\ pp_i' = pp_i + 1
                          /\ UNCHANGED <<pp_pc, pp_error>>
                     ELSE \* add_slide, then add_picture raises
                          /\ pp_slides' = Append(pp_slides, Slide(r.layout, r.layout,
                                                                  section, o))
                          /\ PptRaise("section_image")
                          /\ UNCHANGED pp_i
             ELSE /\ pp_slides' = Append(pp_slides, Slide(r.layout, r.layout, section, "none"))
                  /\ pp_i' = pp_i + 1
                  /\ UNCHANGED <<pp_pc, pp_tmp, pp_error>>
    /\ UNCHANGED <<pp_call, pp_file, pp_saved>>
    /\ UNCHANGED <<parserVars, conclusionVars, layoutVars, presentationVars, mainVars,
                   flaskVars, slideVars>>

\* lines 615 and 663: the end of the with statement and the thank-you slide
PptThankYou ==
    /\ pp_pc = "section"
    /\ pp_i > Len(pp_call.outline)
    /\ pp_tmp' = {}
    /\ pp_slides' = Append(pp_slides, Slide("thank_you", "thank_you", <<>>, "none"))
    /\ pp_pc' = "save"
    /\ UNCHANGED <<pp_call, pp_file, pp_i, pp_saved, pp_error>>
    /\ UNCHANGED <<parserVars, conclusionVars, layoutVars, presentationVars, mainVars,
                   flaskVars, slideVars>>

\* lines 666-668: prs.save(filename) and the return of filename
PptSave ==
    /\ pp_pc = "save"
    /\ \E saved \in BOOLEAN :
          IF saved
          THEN /\ pp_saved' = pp_slides
               /\ pp_pc' = "returned"
               /\ UNCHANGED <<pp_error, pp_tmp>>
          ELSE PptRaise("save") /\ UNCHANGED pp_saved
    /\ UNCHANGED <<pp_call, pp_file, pp_i, pp_slides>>
    /\ UNCHANGED <<parserVars, conclusionVars, layoutVars, presentationVars, mainVars,
                   flaskVars, slideVars>>

NextPpt ==
    \/ PptOpen
    \/ PptTitleSlide
    \/ PptSection
    \/ PptThankYou
    \/ PptSave

-----------------------------------------------------------------------------
(* app_flask.py: step1, step2, step3, download, reset *)

\* A str of the web application: a word such as "simple", the name of the
\* n-th temporary file, the path of a theme file; Absent stands for a key
\* that is not in the session
Word(w) == [kind |-> "word", n |-> 0, name |-> w]
TmpName(n) == [kind |-> "tmp", n |-> n, name |-> ".pptx"]
Absent == [kind |-> "absent", n |-> 0, name |-> ""]

\* os.path.join("themes", f"{theme}.pptx") of line 156
ThemePath(theme) == [kind |-> "themes", n |-> 0, name |-> theme.name]

Sessions == {"A", "B"}

MaxRequests == 2    \* POST /step3 requests that reach the generation

FlaskTopics == {Word("AI")}
FlaskDetails == {Word("simple"), Word("detailed")}
FlaskThemes == {Word("ocean")}

\* session.clear()
EmptySession ==
    [topic |-> Absent, detail_level |-> Absent, theme |-> Absent,
     presentation_path |-> Absent, presentation_title |-> Absent]

\* session.get('detail_level', 'simple')
SessionDetail(sess) ==
    IF sess.detail_level = Absent THEN Word("simple") ELSE sess.detail_level

Methods == {"GET", "POST"}

\* the requests to /step1: a GET, a POST with a topic that is empty after
\* strip(), a POST with a topic and a detail level
Step1Requests ==
    {[method |-> "GET", topic |-> Absent, detail_level |-> Absent],
     [method |-> "POST", topic |-> Word(""), detail_level |-> Word("simple")]}
    \cup [method : {"POST"}, topic : FlaskTopics, detail_level : FlaskDetails]

\* the requests to /step2, with or without a theme in the form, while the
\* themes folder lists themes or none
Step2Requests ==
    [method : {"GET"}, theme : {Absent}, themes : BOOLEAN]
    \cup [method : {"POST"}, theme : FlaskThemes \cup {Absent}, themes : {TRUE}]

\* the content of a file: the presentation made by generation gen of a
\* session from the topic, detail level and theme it held, or nothing yet
Content(s, gen, sess) ==
    [session |-> s, gen |-> gen, topic |-> sess.topic,
     detail_level |-> SessionDetail(sess), theme |-> sess.theme]
NoContent ==
    [session |-> "", gen |-> 0, topic |-> Absent, detail_level |-> Absent,
     theme |-> Absent]

\* the response "Presentation not found", 404
NotFound ==
    [session |-> "404", gen |-> 0, topic |-> Absent, detail_level |-> Absent,
     theme |-> Absent]

\* the response to a request of session s to a route: the page rendered,
\* the redirect or the status, and the file sent by send_file
Response(s, route, page, file) ==
    [session |-> s, route |-> route, page |-> page, file |-> file]

Respond(s, route, page) == fl_resp' = Response(s, route, page, NoContent)

\* the file system after writing content c at path p
WriteFile(files, p, c) ==
    [q \in DOMAIN files \cup {p} |-> IF q = p THEN c ELSE files[q]]

\* the parameters of create_presentation (ppt_generator.py line 1050), in
\* their order
create_presentation_params ==
    <<"outline", "presentation_title", "detail_level", "filename", "theme_path">>

\* the positional arguments of the call of step3 (lines 159-165), in their
\* order
step3_arguments(sess, tmp_file) ==
    <<Word("outline"), Word("presentation_title"), ThemePath(sess.theme),
      SessionDetail(sess), tmp_file>>

\* the binding of positional arguments to parameters
BindArguments(args) ==
    [p \in {create_presentation_params[k] : k \in 1..Len(create_presentation_params)} |->
        args[CHOOSE k \in 1..Len(create_presentation_params) :
                 create_presentation_params[k] = p]]

\* the test of step3 for the topic only
step3_complete_TopicOnly(sess) == sess.topic # Absent

\* line 143 negated: 'topic' in session and 'theme' in session
step3_complete(sess) == sess.topic # Absent /\ sess.theme # Absent

\* the session after step3 with the assignments made when the call raised
step3_session_Always(sess, raised, presentation_path) ==
    [sess EXCEPT !.presentation_path = presentation_path,
                 !.presentation_title = Word("presentation_title")]

\* the session after the try statement of step3 (lines 147-183): lines
\* 167-168 are reached only when create_presentation returned
step3_session(sess, raised, presentation_path) ==
    IF raised THEN sess
    ELSE [sess EXCEPT !.presentation_path = presentation_path,
                      !.presentation_title = Word("presentation_title")]

NoCall == [tmp_file |-> Absent, saved_at |-> Absent, detail |-> Absent,
           params |-> BindArguments(<<Absent, Absent, Absent, Absent, Absent>>)]

FlaskOff ==
    /\ fl_session = <<>>
    /\ fl_req = <<>>
    /\ fl_files = <<>>
    /\ fl_count = 0
    /\ fl_done = <<>>
    /\ fl_log = {}
    /\ fl_resp = <<>>

InitFlask ==
    /\ fl_session = [s \in Sessions |-> EmptySession]
    /\ fl_req = [s \in Sessions |-> [pc |-> "idle", tmp_file |-> Absent]]
    /\ fl_files = <<>>
    /\ fl_count = 0
    /\ fl_done = [s \in Sessions |-> NoCall]
    /\ fl_log = {}
    /\ fl_resp = Response("", "", "", NoContent)

\* GET and POST /step1 (lines 76-89): a POST with a topic that is not empty
\* after strip() stores topic and detail_level
Step1(s) ==
    /\ fl_req[s].pc = "idle"
    /\ \E request \in Step1Requests :
          IF request.method = "GET"
          THEN Respond(s, "/step1", "step1.html") /\ UNCHANGED fl_session
          ELSE IF request.topic = Word("")
          THEN Respond(s, "/step1", "step1.html error") /\ UNCHANGED fl_session
          ELSE /\ fl_session' = [fl_session EXCEPT
                                     ![s].topic = request.topic,
                                     ![s].detail_level = request.detail_level]
               /\ Respond(s, "/step1", "redirect step2")
    /\ UNCHANGED <<fl_req, fl_files, fl_count, fl_done, fl_log>>
    /\ UNCHANGED <<parserVars, conclusionVars, layoutVars, presentationVars, mainVars, slideVars, pptVars>>

\* GET and POST /step2 (lines 91-123): without a topic the redirect to
\* step1; an error when the themes folder lists no theme; a POST with a
\* theme stores it
Step2(s) ==
    /\ fl_req[s].pc = "idle"
    /\ \E request \in Step2Requests :
          IF fl_session[s].topic = Absent
          THEN Respond(s, "/step2", "redirect step1") /\ UNCHANGED fl_session
          ELSE IF ~ request.themes
          THEN Respond(s, "/step2", "step2.html error") /\ UNCHANGED fl_session
          ELSE IF request.method = "POST" /\ request.theme # Absent
          THEN /\ fl_session' = [fl_session EXCEPT ![s].theme = request.theme]
               /\ Respond(s, "/step2", "redirect step3")
          ELSE Respond(s, "/step2", "step2.html") /\ UNCHANGED fl_session
    /\ UNCHANGED <<fl_req, fl_files, fl_count, fl_done, fl_log>>
    /\ UNCHANGED <<parserVars, conclusionVars, layoutVars, presentationVars, mainVars, slideVars, pptVars>>

\* GET and POST /step3, lines 142-158 and 185-188: without a topic or a
\* theme the redirect to step1; a GET shows the page; a POST generates the
\* outline and creates the temporary file of the request (delete=False)
Step3Begin(s) ==
    /\ fl_req[s].pc = "idle"
    /\ \E method \in Methods :
          IF ~ step3_complete(fl_session[s])
          THEN /\ Respond(s, "/step3", "redirect step1")
               /\ UNCHANGED <<fl_req, fl_files, fl_count, fl_log>>
          ELSE IF method = "GET"
          THEN /\ Respond(s, "/step3", "step3.html")
               /\ UNCHANGED <<fl_req, fl_files, fl_count, fl_log>>
          ELSE /\ fl_count < MaxRequests
               /\ fl_count' = fl_count + 1
               /\ fl_req' = [fl_req EXCEPT ![s] = [pc |-> "create",
                                                   tmp_file |-> TmpName(fl_count + 1)]]
               /\ fl_files' = WriteFile(fl_files, TmpName(fl_count + 1), NoContent)
               /\ fl_log' = fl_log \cup {[path |-> TmpName(fl_count + 1), session |-> s,
                                          op |-> "write"]}
               /\ Respond(s, "/step3", "")
    /\ UNCHANGED <<fl_session, fl_done>>
    /\ UNCHANGED <<parserVars, conclusionVars, layoutVars, presentationVars, mainVars, slideVars, pptVars>>

\* POST /step3, lines 159-176: create_presentation with the arguments of the
\* call bound to its parameters saves at filename and returns filename,
\* which the session keeps; lines 178-183 when it raises
Step3Create(s) ==
    /\ fl_req[s].pc = "create"
    /\ LET sess == fl_session[s]
           params == BindArguments(step3_arguments(sess, fl_req[s].tmp_file))
       IN \E raised \in BOOLEAN :
             /\ fl_session' = [fl_session EXCEPT
                                  ![s] = step3_session(sess, raised, params.filename)]
             /\ IF raised
                THEN /\ Respond(s, "/step3", "step3.html error")
                     /\ UNCHANGED <<fl_files, fl_done, fl_log>>
                ELSE /\ fl_files' = WriteFile(fl_files, params.filename,
                                              Content(s, fl_req[s].tmp_file.n, sess))
                     /\ fl_log' = fl_log \cup {[path |-> params.filename, session |-> s,
                                                op |-> "write"]}
                     /\ fl_done' = [fl_done EXCEPT
                                       ![s] = [tmp_file |-> fl_req[s].tmp_file,
                                               saved_at |-> params.filename,
                                               detail |-> SessionDetail(sess),
                                               params |-> params]]
                     /\ Respond(s, "/step3", "step3.html ready")
    /\ fl_req' = [fl_req EXCEPT ![s] = [pc |-> "idle", tmp_file |-> Absent]]
    /\ UNCHANGED fl_count
    /\ UNCHANGED <<parserVars, conclusionVars, layoutVars, presentationVars, mainVars, slideVars, pptVars>>

\* GET /download (lines 191-203): the file at session['presentation_path'],
\* or 404
Download(s) ==
    /\ fl_req[s].pc = "idle"
    /\ LET path == fl_session[s].presentation_path
       IN IF path = Absent \/ path \notin DOMAIN fl_files
          THEN /\ fl_resp' = Response(s, "/download", "404", NotFound)
               /\ UNCHANGED fl_log
          ELSE /\ fl_resp' = Response(s, "/download", "file", fl_files[path])
               /\ fl_log' = fl_log \cup {[path |-> path, session |-> s, op |-> "read"]}
    /\ UNCHANGED <<fl_session, fl_req, fl_files, fl_count, fl_done>>
    /\ UNCHANGED <<parserVars, conclusionVars, layoutVars, presentationVars, mainVars, slideVars, pptVars>>

\* GET /reset (lines 207-211)
Reset(s) ==
    /\ fl_req[s].pc = "idle"
    /\ fl_session' = [fl_session EXCEPT ![s] = EmptySession]
    /\ Respond(s, "/reset", "redirect step1")
    /\ UNCHANGED <<fl_req, fl_files, fl_count, fl_done, fl_log>>
    /\ UNCHANGED <<parserVars, conclusionVars, layoutVars, presentationVars, mainVars, slideVars, pptVars>>

NextFlask ==
    \E s \in Sessions :
       \/ Step1(s)
       \/ Step2(s)
       \/ Step3Begin(s)
       \/ Step3Create(s)
       \/ Download(s)
       \/ Reset(s)

-----------------------------------------------------------------------------
(* Specifications *)

\* the parser on every input text
Init == InitParser /\ ConclusionOff /\ LayoutOff /\ PresentationOff /\ MainOff
    /\ FlaskOff /\ SlideOff /\ PptOff

Next == NextParser

Spec == Init /\ [][Next]_vars

\* ensure_conclusion_slide on every outline
InitOfConclusion ==
    ParserOff /\ InitConclusion /\ LayoutOff /\ PresentationOff /\ MainOff
    /\ FlaskOff /\ SlideOff /\ PptOff

SpecConclusion == InitOfConclusion /\ [][NextConclusion]_vars

\* determine_slide_layout on every argument list
InitOfLayout ==
    ParserOff /\ ConclusionOff /\ InitLayout /\ PresentationOff /\ MainOff
    /\ FlaskOff /\ SlideOff /\ PptOff

SpecLayout == InitOfLayout /\ [][NextLayout]_vars

\* create_presentation on every outline
InitOfPresentation ==
    ParserOff /\ ConclusionOff /\ LayoutOff /\ InitPresentation /\ MainOff
    /\ FlaskOff /\ SlideOff /\ PptOff

SpecPresentation == InitOfPresentation /\ [][NextPresentation]_vars

\* main of ppt_generator.py and of ppt.py on every command line
InitOfMain ==
    ParserOff /\ ConclusionOff /\ LayoutOff /\ PresentationOff /\ InitMain
    /\ FlaskOff /\ SlideOff /\ PptOff

SpecMain == InitOfMain /\ [][NextMain]_vars

\* the web application with two sessions
InitOfFlask ==
    ParserOff /\ ConclusionOff /\ LayoutOff /\ PresentationOff /\ MainOff
    /\ InitFlask /\ SlideOff /\ PptOff

SpecFlask == InitOfFlask /\ [][NextFlask]_vars

\* the slide functions on every list of points and image
InitOfSlide ==
    ParserOff /\ ConclusionOff /\ LayoutOff /\ PresentationOff /\ MainOff
    /\ FlaskOff /\ InitSlide /\ PptOff

SpecSlide == InitOfSlide /\ [][NextSlide]_vars

\* create_presentation of ppt.py on every outline and theme file
InitOfPpt ==
    ParserOff /\ ConclusionOff /\ LayoutOff /\ PresentationOff /\ MainOff
    /\ FlaskOff /\ SlideOff /\ InitPpt

SpecPpt == InitOfPpt /\ [][NextPpt]_vars

-----------------------------------------------------------------------------
(* Properties of the parser *)

IsBullet(b) == DOMAIN b = {"text", "level"} /\ b.text # <<>> /\ b.level \in Int

\* a dict of section title -> list of bullets: distinct keys
IsOutline(d) ==
    /\ \A j, k \in 1..Len(d) : d[j].key = d[k].key => j = k
    /\ \A k \in 1..Len(d) : \A n \in 1..Len(d[k].value) : IsBullet(d[k].value[n])

\* C1: for every input text the loop of the parser stays within the lines of
\* the text (so one of its steps can always be taken until it returns), and
\* the pair it returns has a non-empty title and a well-formed outline
\* mapping with non-empty keys.
C1_ParseTotal ==
    /\ ppc = "slides" => idx \in 1..(Len(lines) + 1)
    /\ ppc = "done" => /\ idx = Len(lines) + 1
                       /\ Truthy(main_title)
                       /\ IsOutline(outline)
                       /\ \A k \in 1..Len(outline) : Truthy(outline[k].key)

\* the parser has returned the defaults for a text without any section
C1_Witness ==
    /\ ppc = "done"
    /\ lines # <<>>
    /\ outline = <<>>
    /\ main_title = sPresentation

\* the text x of a bullet line "marker x" of a bullet-list input
BulletTextOf(line) == IF line[1] \in Digits THEN From(line, 4) ELSE From(line, 3)

\* the text is one header line **T** followed by bullet lines "marker x"
IsBulletList ==
    /\ Len(lines) >= 2
    /\ Len(lines[1]) >= 5
    /\ lines[1] = Bold(SubSeq(lines[1], 3, Len(lines[1]) - 2))
    /\ \A k \in 3..(Len(lines[1]) - 2) : lines[1][k] # "*"
    /\ \A k \in 2..Len(lines) :
          \E m \in Markers : StartsWith(lines[k], m) /\ Len(lines[k]) > Len(m)

\* the outline that C2 states for a bullet-list input
C2_Expected ==
    << [key |-> SubSeq(lines[1], 3, Len(lines[1]) - 2),
        value |-> [k \in 1..(Len(lines) - 1) |->
                      [text |-> BulletTextOf(lines[k + 1]), level |-> 0]]] >>

\* plain text: no markdown characters, single blanks, no number marker first
PlainText(x) ==
    /\ x # <<>>
    /\ \A k \in 1..Len(x) : x[k] \notin {"*", "#", "[", TAB}
    /\ x[1] # " " /\ x[Len(x)] # " "
    /\ ~ Contains(x, <<" ", " ">>)
    /\ SubNumberMarker(x) = x

\* a title the post-processing does not rename
PlainTitle(t) ==
    /\ Strip(t) = t
    /\ (Contains(Lower(t), sIntroductionLower) => t = sIntroduction)

FirstIntroLike(d) ==
    LET like == {k \in 1..Len(d) : Contains(Lower(d[k].key), sIntroductionLower)}
    IN IF like = {} THEN None
       ELSE d[CHOOSE k \in like : \A j \in like : k <= j].key

\* C3: when the parsed outline has an introduction-like key and no key
\* "Introduction", the returned outline starts with "Introduction" holding
\* that section's bullets, followed by the other sections in source order.
C3_IntroductionFirst ==
    [][ (ppc = "slides" /\ ppc' = "done") =>
        LET parsed == SaveSlide(outline, current_slide, slide_content)
            key == FirstIntroLike(parsed)
        IN (key # None /\ ~ HasKey(parsed, sIntroduction)) =>
              /\ outline' # <<>>
              /\ outline'[1] = [key |-> sIntroduction, value |-> Get(parsed, key)]
              /\ Tail(outline') = SelectSeq(parsed, LAMBDA e : e.key # key)
      ]_vars

\* a renamed section that was the third of three has become the first
C3_Witness ==
    /\ ppc = "done"
    /\ lines = Sectioned(<<Bold(tGoals), Hash(tPlan), Bold(tAnIntro)>>, 1)
    /\ Keys(outline) = <<sIntroduction, tGoals, tPlan>>
    /\ outline[1].value = << [text |-> <<"c">>, level |-> 0] >>

\* C4: every bullet the parser stores, and every bullet produced by
\* process_bullet_points, has a level in 0..3.
C4_LevelRange ==
    /\ \A k \in 1..Len(outline) : \A n \in 1..Len(outline[k].value) :
           outline[k].value[n].level \in 0..MaxLevel
    /\ \A n \in 1..Len(bullets_out) : bullets_out[n].level \in 0..MaxLevel

\* a bullet whose source line was indented by 8 or more spaces is in the
\* returned outline
C4_Witness ==
    /\ ppc = "done"
    /\ \E k \in 1..Len(lines) : LeadWS(lines[k]) >= 8 /\ Strip(lines[k]) = <<"-", " ", "a">>
    /\ HasKey(outline, tGoals)
    /\ Get(outline, tGoals) # <<>>

-----------------------------------------------------------------------------
(* Properties of ensure_conclusion_slide *)

\* the title of the last section of an outline, "" for the empty outline
LastKey(d) == IF d # <<>> THEN d[Len(d)].key ELSE <<>>

\* C5: when the last title has none of the keywords, the result is the input
\* with a new last section "Conclusion" holding the three fixed bullets;
\* otherwise the result is the input.
C5_AppendsConclusion ==
    ec_pc = "done" =>
        IF HasConclusionKeyword(LastKey(ec_arg))
        THEN ec_ret = ec_arg
        ELSE ec_ret = Append(ec_arg, [key |-> sConclusion, value |-> ConclusionBullets])

\* C6: after the call the outline is not empty and its last title has one of
\* the keywords.
C6_ConclusionLast ==
    ec_pc = "done" => (ec_ret # <<>> /\ HasConclusionKeyword(LastKey(ec_ret)))

-----------------------------------------------------------------------------
(* Properties of determine_slide_layout *)

\* C7: slide_index 0 gives "title"; otherwise a title with "conclusion" gives
\* "conclusion"; otherwise slide_index 1 gives "title_content"; none of the
\* three is drawn at random.
C7_Overrides ==
    dl_pc = "done" =>
        LET concl == Contains(Lower(dl_args.section_title), conclusion_keywords[1])
        IN /\ dl_args.slide_index = 0 => (dl_ret = "title" /\ ~ dl_random)
           /\ (dl_args.slide_index # 0 /\ concl) => (dl_ret = "conclusion" /\ ~ dl_random)
           /\ (dl_args.slide_index = 1 /\ ~ concl) => (dl_ret = "title_content" /\ ~ dl_random)

\* the section "Key Conclusions" at slide_index 1 got the conclusion layout
C7_Witness ==
    /\ dl_pc = "done"
    /\ dl_args.slide_index = 1
    /\ dl_args.section_title = tKeyConclusions
    /\ dl_ret = "conclusion"
    /\ ~ dl_random

-----------------------------------------------------------------------------
(* Properties of create_presentation *)

\* C8: a call that returns for an outline of N >= 1 sections has made N + 2
\* slides: the title slide, one slide per section in outline order, the
\* thank-you slide.
C8_OneSlidePerSection ==
    (cp_pc = "returned" /\ Len(cp_outline) >= 1) =>
        /\ Len(slides) = Len(cp_outline) + 2
        /\ slides[1].kind = "title"
        /\ \A k \in 1..Len(cp_outline) :
              slides[k + 1].section = cp_outline[k].key /\ slides[k + 1].kind # "thank_you"
        /\ slides[Len(slides)].kind = "thank_you"

\* C9: no outline, the empty one included, makes the call fail, and a call
\* that returns has made the thank-you slide last, after every section
\* slide.
C9_ThankYouLast ==
    /\ cp_error # "IndexError"
    /\ cp_pc = "returned" =>
          /\ slides # <<>>
          /\ \A k \in 1..Len(slides) : slides[k].kind = "thank_you" <=> k = Len(slides)

\* C10: a section that was assigned an image layout and got no usable image
\* is rendered by the title_content slide, and no image of a section makes
\* the call raise.
C10_ImageFallback ==
    /\ cp_error # "section_image"
    /\ \A k \in 1..Len(slides) :
          (slides[k].layout \in ImageLayouts /\ slides[k].image \in {"none", "unusable"})
              => slides[k].kind = "title_content"

\* C11: no image file written by the call lies in a folder that outlives the
\* call (every one is in a directory scoped to the call), and once the call
\* has returned or raised none of the image files it wrote is on disk.
C11_ScopedImages ==
    /\ \A f \in cp_files : f.folder # image_folder
    /\ cp_pc \in {"returned", "raised"} => cp_files = {}

-----------------------------------------------------------------------------
(* Properties of main *)

\* the theme asked for is missing: no --theme, or no file of that name
ThemeMissing ==
    IF Truthy(m_args.theme)
    THEN ~ Exists(m_fs, get_theme_path(m_args.theme, theme_folder))
    ELSE TRUE

\* C12: when no theme is asked for or the theme file does not exist, main
\* sets theme_path to None, create_presentation starts from the blank
\* presentation, and the theme makes no step of the pipeline fail.
C12_ThemeFallback ==
    (m_pc # "off" /\ ThemeMissing) =>
        /\ m_pc # "start" => m_theme_path = None
        /\ m_prs \in {"", "blank"}
        /\ m_pc \in {"render", "done"} => m_prs = "blank"
        /\ m_error # "theme"

\* main of ppt.py has finished with --theme sky while only ocean.pptx is in
\* the themes folder
C12_Witness ==
    /\ m_pc = "done"
    /\ m_module = "ppt"
    /\ m_args.theme = tSky
    /\ m_fs.files = {get_theme_path(tOcean, theme_folder)}
    /\ m_theme_path = None
    /\ m_prs = "blank"

\* the shape C13 states for the parse of the mock outline
MockShape(d, detail_level) ==
    /\ Len(d) = (IF detail_level = "simple" THEN 10 ELSE 14)
    /\ d[1].key = sIntroduction
    /\ Contains(LastKey(d), sConclusion)
    /\ \A k \in 1..Len(d) :
          /\ Len(d[k].value) = 3
          /\ \A n \in 1..3 : d[k].value[n].level = 0

\* C13 as stated: when the text generation fails, generate_outline returns
\* the parse of get_mock_outline(topic, detail_level), which for every topic
\* has "Introduction" first, a "Conclusion" title last, 10 sections for
\* "simple" and 14 for "detailed", each with exactly 3 level-0 bullets.
C13_Original ==
    (m_pc = "conclusion" /\ m_mock) =>
        /\ llm_output = get_mock_outline(m_args.topic, m_args.detail)
        /\ MockShape(m_outline, m_args.detail)

\* C13 as amended: the same, for a topic without a line break.
C13_MockShape ==
    (m_pc = "conclusion" /\ m_mock /\ ~ Contains(m_args.topic, <<NL>>)) =>
        /\ llm_output = get_mock_outline(m_args.topic, m_args.detail)
        /\ MockShape(m_outline, m_args.detail)

\* the request failed although the key is set, and generate_outline has
\* returned the 14 sections of the detailed mock outline
C13_Witness ==
    /\ m_pc = "conclusion"
    /\ m_mock
    /\ m_key
    /\ m_args.topic = tAI
    /\ m_args.detail = "detailed"
    /\ Keys(m_outline) = sections_detailed
    /\ m_title = sections_detailed[2]

\* C14: in main of ppt_generator.py an unusable text-generation service,
\* the missing API key included, never ends the pipeline: no run fails with
\* the error of the missing key.
C14_PipelineCompletes ==
    m_module = "ppt_generator" => m_error # "ValueError"

-----------------------------------------------------------------------------
(* Properties of the web application *)

\* C15: what GET /download sends to a session is a presentation made by a
\* generation of that session, and no path written by a request of one
\* session is written or read by a request of another session.
C15_IndependentRequests ==
    /\ fl_resp.page = "file" => fl_resp.file.session = fl_resp.session
    /\ \A e1, e2 \in fl_log :
          (e1.path = e2.path /\ e1.op = "write") => e1.session = e2.session

\* C16: a call of create_presentation made by step3 that returned has saved
\* the file at the temporary path of the request, has received that path as
\* filename and the detail level of the session as detail_level, and that
\* path is the presentation_path of the session.
C16_SavedAtCallerPath ==
    \A s \in Sessions :
        fl_done[s] # NoCall =>
            /\ fl_done[s].saved_at = fl_done[s].tmp_file
            /\ fl_done[s].params.filename = fl_done[s].tmp_file
            /\ fl_done[s].params.detail_level = fl_done[s].detail
            /\ fl_session[s].presentation_path \in {Absent, fl_done[s].tmp_file}

-----------------------------------------------------------------------------
(* Further properties of the parser *)

\* the smaller of two numbers
Min(a, b) == IF a <= b THEN a ELSE b

\* line k of the text is a content line "- a" indented by spaces only, an
\* even number of them, directly under the header **Goals** of line 1
IndentedBullet(k) ==
    /\ k = 2
    /\ Len(lines) >= 2
    /\ lines[1] = Bold(tGoals)
    /\ \A j \in 1..LeadWS(lines[k]) : lines[k][j] = " "
    /\ LeadWS(lines[k]) % 2 = 0
    /\ From(lines[k], LeadWS(lines[k]) + 1) = <<"-", " ", "a">>

\* C17: a content line of an open section indented by 2k spaces is stored
\* with level min(k, 3).
C17_IndentLevels ==
    (ppc = "done" /\ IndentedBullet(2)) =>
        /\ HasKey(outline, tGoals)
        /\ Get(outline, tGoals)[1].level = Min(LeadWS(lines[2]) \div 2, MaxLevel)

\* the keys of a dict that do not contain "introduction", in order
NonIntroKeys(d) ==
    SelectSeq(Keys(d), LAMBDA key : ~ Contains(Lower(key), sIntroductionLower))

FirstHeader(ls) ==
    LET hs == {k \in 1..Len(ls) :
                  /\ SlidePatternGroup(Strip(ls[k])) # None
                  /\ Strip(SlidePatternGroup(Strip(ls[k]))) # <<>>}
    IN IF hs = {} THEN Len(ls) + 1 ELSE CHOOSE k \in hs : \A j \in hs : k <= j

RECURSIVE CountBullets(_)
\* the number of bullets of an outline
CountBullets(d) == IF d = <<>> THEN 0 ELSE Len(Head(d).value) + CountBullets(Tail(d))

\* C19: the line the title is taken from lies before the first section
\* header (a content line of an open section is never the title), and no
\* line before the first header is stored as a bullet.
C19_TitleBeforeSections ==
    ppc = "done" =>
        LET cand == {k \in 1..Len(lines) : IsTitleLine(Strip(lines[k]))}
        IN /\ Truthy(find_main_title(lines)) =>
                 \A k \in cand : (\A j \in cand : k <= j) => k < FirstHeader(lines)
           /\ CountBullets(outline) <=
                 Cardinality({k \in (FirstHeader(lines) + 1)..Len(lines) :
                                 Strip(lines[k]) # <<>>})

\* the title of the header at line k, None when line k is not a header
HeaderTitle(k) ==
    LET g == SlidePatternGroup(Strip(lines[k]))
    IN IF g = None THEN None ELSE Strip(g)

\* no line with content follows the header of line k before the next header
NoContentAfter(k) ==
    \A j \in (k + 1)..Len(lines) :
        (\A i \in (k + 1)..(j - 1) : HeaderTitle(i) = None) => 
            (Strip(lines[j]) = <<>> \/ HeaderTitle(j) # None)

\* C20: every header line with a non-empty title T gives a key T of the
\* returned outline (the key "Introduction" when T is the section that was
\* renamed), with an empty list when no content follows the header.
C20_EveryHeaderAKey ==
    ppc = "done" =>
        \A k \in 1..Len(lines) :
            Truthy(HeaderTitle(k)) =>
                LET key == IF HasKey(outline, HeaderTitle(k)) THEN HeaderTitle(k)
                           ELSE sIntroduction
                IN /\ HasKey(outline, key)
                   /\ (key = HeaderTitle(k) \/ Contains(Lower(HeaderTitle(k)), sIntroductionLower))
                   /\ (NoContentAfter(k) /\ \A j \in 1..Len(lines) :
                                               HeaderTitle(j) = HeaderTitle(k) => j = k)
                         => Get(outline, key) = <<>>

-----------------------------------------------------------------------------
(* Properties of the cleaning of bullet lines *)

\* an asterisk used as a multiplication sign: a blank on either side
sTimes == <<" ", "*", " ">>

\* C21: a bullet line whose text holds an asterisk between two blanks (a
\* multiplication sign, as in "2 * 3 * 4") is stored with an asterisk still
\* in its text; cleaning removes only emphasis markers and the leading
\* bullet marker.
C21_KeepsAsterisks ==
    (/\ ppc = "done"
     /\ IsBulletList
     /\ Len(outline) = 1
     /\ Len(outline[1].value) = Len(lines) - 1)
    => \A k \in 2..Len(lines) :
          Contains(BulletTextOf(lines[k]), sTimes)
          => Contains(outline[1].value[k - 1].text, <<"*">>)

-----------------------------------------------------------------------------
(* Properties of the slide functions *)

\* the bullets shown in a text frame: its non-empty paragraphs without the
\* prefix of the module
ColumnBullets(frame, prefix) ==
    LET ps == SelectSeq(frame, LAMBDA p : p.text # <<>>)
    IN [k \in 1..Len(ps) |->
           [text |-> From(ps[k].text, Len(prefix) + 1), level |-> ps[k].level]]

\* C22: create_two_column_slide puts the first floor(n/2) of its n bullets
\* into the left column and the rest into the right column: left followed
\* by right is the list passed in, and the right column has as many bullets
\* as the left one or exactly one more.
C22_TwoColumnSplit ==
    (sl_pc = "returned" /\ sl_call.fn = "create_two_column_slide")
    => LET prefix == point_prefix(sl_call.module, sl_call.fn)
           left == ColumnBullets(sl_frames[1], prefix)
           right == ColumnBullets(sl_frames[2], prefix)
       IN /\ Len(left) = Len(sl_call.points) \div 2
          /\ left \o right = sl_call.points
          /\ Len(right) - Len(left) \in {0, 1}

\* three bullets: one on the left, two on the right
C22_Witness ==
    /\ sl_pc = "returned"
    /\ sl_call.fn = "create_two_column_slide"
    /\ Len(sl_call.points) = 3
    /\ Len(sl_frames[1]) = 1
    /\ Len(sl_frames[2]) = 2

\* the picture of an image slide that returned for an image file of
\* Wi x Hi pixels lies in the container, keeps the ratio Wi : Hi up to the
\* rounding of its two sides, and is centred in the container
FitsContainer(slack) ==
    LET c == img_container(sl_call.fn)
        Wi == sl_call.image.width
        Hi == sl_call.image.height
        by_width == c.width * Hi <= c.height * Wi
        exact_width == IF by_width THEN c.width ELSE (Wi * c.height) \div Hi
        exact_height == IF by_width THEN (Hi * c.width) \div Wi ELSE c.height
        skew == sl_shape.width * Hi - sl_shape.height * Wi
    IN /\ sl_shape.kind = "picture"
       /\ exact_width - sl_shape.width \in 0..slack
       /\ exact_height - sl_shape.height \in 0..slack
       /\ sl_shape.width <= c.width
       /\ sl_shape.height <= c.height
       /\ \/ c.width - sl_shape.width <= slack
          \/ c.height - sl_shape.height <= slack
       /\ skew <= Wi /\ skew >= 0 - Hi
       /\ sl_shape.left_x2 - 2 * c.left = c.width - sl_shape.width
       /\ sl_shape.top_x2 - 2 * c.top = c.height - sl_shape.height

ImageSlideReturned ==
    /\ sl_pc = "returned"
    /\ sl_call.fn # "create_two_column_slide"
    /\ sl_call.image.kind = "image"

\* C23 as stated: the sides of the picture are int(Wi*s) and int(Hi*s) for
\* s = min(Wc/Wi, Hc/Hi), so one of them is the side of the container (it
\* differs from it by less than one unit), none is larger, the ratio is
\* kept up to the rounding and the picture is centred.
C23_Original == ImageSlideReturned => FitsContainer(0)

\* C23 as amended: the sides are the values of int(Wi*s) and int(Hi*s) in
\* double arithmetic, which are the exact ones or one unit less, so one of
\* them differs from the side of the container by at most one unit.
C23_ImageFit == ImageSlideReturned => FitsContainer(1)

\* a square image in the container of the image-left slide: both sides of
\* the picture are one unit short of the container width
C23_Witness ==
    /\ ImageSlideReturned
    /\ sl_call.fn = "create_image_left_text_right_slide"
    /\ sl_call.image.width = sl_call.image.height
    /\ sl_shape.kind = "picture"
    /\ sl_shape.width = img_container(sl_call.fn).width - 1
    /\ sl_shape.left_x2 = 2 * img_container(sl_call.fn).left + 1

-----------------------------------------------------------------------------
(* Properties of the weights of determine_slide_layout *)

TextLayouts == {"title_content", "two_column"}

\* the number of entries of the list opts that are in the set S;
\* random.choice draws each entry of the list with the same probability
CountIn(opts, S) == Cardinality({k \in 1..Len(opts) : opts[k] \in S})

\* the probability of a layout of S among the options a is larger than
\* among the options b
MoreLikely(S, a, b) == CountIn(a, S) * Len(b) > CountIn(b, S) * Len(a)

MidBullets == FewBullets + 1     \* a bullet count that is neither few nor many

\* C24: when the layout is drawn at random (slide_index >= 2, no
\* "conclusion" in the title), an image layout is more likely for fewer
\* than 3 bullets than for 3 or 4 bullets, and a text-heavy layout
\* (title_content, two_column) is more likely for 5 or more bullets than for
\* 3 or 4 bullets.
C24_WeightsByBullets ==
    (dl_pc = "done" /\ dl_random)
    => LET here == layout_options(dl_args.module, dl_args.detail_level,
                                  dl_args.content_length)
           mid == layout_options(dl_args.module, dl_args.detail_level, MidBullets)
       IN /\ dl_args.content_length <= FewBullets
             => MoreLikely(ImageLayouts, here, mid)
          /\ dl_args.content_length >= ManyBullets
             => MoreLikely(TextLayouts, here, mid)

-----------------------------------------------------------------------------
(* Properties of create_presentation of ppt.py *)

\* the call loaded the theme file
ThemeLoaded == Truthy(pp_call.theme_path) /\ pp_file.exists /\ pp_file.valid

\* C25: the slides of the theme file are all removed before the first slide
\* is added, and the saved presentation holds the generated slides only:
\* the title slide, one slide per section in order, the thank-you slide.
C25_ThemeSlidesRemoved ==
    /\ pp_pc = "title" => pp_slides = <<>>
    /\ \A k \in 1..Len(pp_slides) : pp_slides[k] # ThemeSlide
    /\ pp_pc = "returned" =>
          /\ Len(pp_saved) = Len(pp_call.outline) + 2
          /\ pp_saved[1].kind = "title"
          /\ pp_saved[Len(pp_saved)].kind = "thank_you"
          /\ \A k \in 1..Len(pp_call.outline) :
                /\ pp_saved[k + 1].section = pp_call.outline[k].key
                /\ pp_saved[k + 1].kind \notin {"theme", "title", "thank_you"}

\* a theme with two slides of its own was loaded and the presentation for
\* two sections was saved
C25_Witness ==
    /\ pp_pc = "returned"
    /\ ThemeLoaded
    /\ pp_file.slides >= 2
    /\ Len(pp_call.outline) = 2
    /\ Len(pp_saved) = 4

-----------------------------------------------------------------------------
(* Properties of the wizard of the web application *)

\* C26: a POST /step3 whose call of create_presentation raises (the call
\* returns no filename) is answered with the error page, and it leaves
\* session['presentation_path'] and session['presentation_title'] as they
\* were before the request.
C26_FailureKeepsSession ==
    [][\A s \in Sessions :
          (fl_req[s].pc = "create" /\ fl_req'[s].pc = "idle" /\ fl_done'[s] = fl_done[s])
          => /\ fl_resp' = Response(s, "/step3", "step3.html error", NoContent)
             /\ fl_session'[s].presentation_path = fl_session[s].presentation_path
             /\ fl_session'[s].presentation_title = fl_session[s].presentation_title
             /\ fl_files' = fl_files]_vars

\* a generation failed in a session that still holds the path of an
\* earlier generation
C26_Witness ==
    /\ fl_resp.page = "step3.html error"
    /\ fl_resp.session \in Sessions
    /\ fl_session[fl_resp.session].presentation_path # Absent
    /\ fl_session[fl_resp.session].presentation_title # Absent

-----------------------------------------------------------------------------
(* Properties of the title of the mock outline *)

\* C27: when generate_outline falls back to the mock outline, the title it
\* returns is the title line of the mock outline, the topic for "simple"
\* and "Comprehensive Analysis of <topic>" for "detailed", and never the
\* name of one of the canned sections.
C27_MockTitle ==
    (m_pc = "conclusion" /\ m_mock) =>
        /\ m_title = (IF m_args.detail = "simple" THEN m_args.topic
                      ELSE mComprehensiveAnalysis \o m_args.topic)
        /\ \A k \in 1..Len(sections_simple) : m_title # sections_simple[k]
        /\ \A k \in 1..Len(sections_detailed) : m_title # sections_detailed[k]

\* the keys of a session come in the order of the wizard: a theme only
\* with a topic, a presentation path only with both
SessionOrdered(sess) ==
    /\ sess.theme # Absent => sess.topic # Absent
    /\ sess.presentation_path # Absent => (sess.topic # Absent /\ sess.theme # Absent)

\* C28: under every sequence of requests, 'theme' in session implies
\* 'topic' in session and 'presentation_path' in session implies both; a
\* presentation is generated only while the session holds a non-empty topic
\* and a theme; /step2 without a topic and /step3 without a topic or a theme
\* redirect to /step1 and leave the session as it is.
C28_WizardOrder ==
    [][\A s \in Sessions :
          /\ SessionOrdered(fl_session'[s])
          /\ fl_req'[s].pc = "create"
             => /\ fl_session'[s].topic \notin {Absent, Word("")}
                /\ fl_session'[s].theme # Absent
          /\ fl_done'[s] # fl_done[s]
             => /\ fl_session[s].topic \notin {Absent, Word("")}
                /\ fl_session[s].theme # Absent
          /\ (/\ fl_resp' # fl_resp
              /\ fl_resp'.session = s
              /\ \/ fl_resp'.route = "/step2" /\ fl_session[s].topic = Absent
                 \/ fl_resp'.route = "/step3" /\ (\/ fl_session[s].topic = Absent
                                                  \/ fl_session[s].theme = Absent))
             => /\ fl_resp'.page = "redirect step1"
                /\ fl_session' = fl_session
                /\ fl_files' = fl_files]_vars

\* /step3 was requested with a topic and without a theme and redirected
C28_Witness ==
    /\ fl_resp.route = "/step3"
    /\ fl_resp.page = "redirect step1"
    /\ fl_resp.session \in Sessions
    /\ fl_session[fl_resp.session].topic # Absent
    /\ fl_session[fl_resp.session].theme = Absent

\* C29: a file served by GET /download was generated from the topic, the
\* detail level and the theme that the session holds at the time of the
\* download; with other choices in the session, or after /reset, the
\* answer is 404.
C29_DownloadCurrent ==
    (fl_resp.route = "/download" /\ fl_resp.page = "file")
    => LET sess == fl_session[fl_resp.session]
       IN /\ fl_resp.file.topic = sess.topic
          /\ fl_resp.file.detail_level = SessionDetail(sess)
          /\ fl_resp.file.theme = sess.theme

-----------------------------------------------------------------------------
(* Properties of repeated section headers *)

\* the index of the first header line after line k, Len + 1 when none
NextHeaderAfter(k) ==
    LET hs == {j \in (k + 1)..Len(lines) : HeaderTitle(j) # None}
    IN IF hs = {} THEN Len(lines) + 1 ELSE CHOOSE j \in hs : \A i \in hs : j <= i

\* the content lines buffered for the header of line k
ContentOf(k) ==
    SelectSeq([j \in 1..(NextHeaderAfter(k) - k - 1) |-> Strip(lines[k + j])],
              LAMBDA l : l # <<>>)

\* line k is a header with a non-empty title followed by content lines
StoredHeader(k) == Truthy(HeaderTitle(k)) /\ ContentOf(k) # <<>>

\* the lines of the headers titled T that are followed by content
OccurrencesOf(T) == {k \in 1..Len(lines) : StoredHeader(k) /\ HeaderTitle(k) = T}

FirstOf(T) == CHOOSE k \in OccurrencesOf(T) : \A j \in OccurrencesOf(T) : k <= j

LastOf(T) == CHOOSE k \in OccurrencesOf(T) : \A j \in OccurrencesOf(T) : k >= j

\* the titles carried by two or more headers that are followed by content
RepeatedTitles ==
    {HeaderTitle(k) : k \in {i \in 1..Len(lines) :
                                /\ StoredHeader(i)
                                /\ Cardinality(OccurrencesOf(HeaderTitle(i))) >= 2}}

IntroLike(T) == Contains(Lower(T), sIntroductionLower)

\* the number of entries of d with the key T
KeyCount(d, T) == Cardinality({k \in 1..Len(d) : d[k].key = T})

\* the position of T in a sequence of keys
PositionIn(ks, T) == CHOOSE k \in 1..Len(ks) : ks[k] = T

\* the keys of d that do not contain "introduction"
OtherKeys(d) == SelectSeq(Keys(d), LAMBDA key : ~ IntroLike(key))

====
